---- MODULE Spec2Model ----
(***************************************************************************)
(* StackOrBolt (TowerHunt): the rules engine (GameLogic.js), the game      *)
(* state classes (GameState.js) and the alpha-beta search (MinimaxAB.js).  *)
(*                                                                         *)
(* A board state is a record [cells, players]: cells maps the cell id      *)
(* (row * 6 + column) to the GridCell fields svgLayout (the stack, bottom  *)
(* first), direction and dot (the "reversed" flag); players maps the       *)
(* player id to the Player fields turn, lastHorizontal, safetyTower,       *)
(* vault and winner.  isMaximizing is fixed: it is true for the bot.       *)
(***************************************************************************)
EXTENDS Integers, Sequences, FiniteSets, TLC

VARIABLES
  cells,      \* live board: BoardState._cells
  players,    \* live board: BoardState._playerState
  settings,   \* the Settings in force (winning rules, search rules, weights)
  moveCount,  \* number of moves applied since the start position
  last,       \* history: the last operation and the state right before it
  kinds,      \* history: per player, the kinds of that player's own moves
  search,     \* the AI worker: its board, its call stack and its answer
  live,       \* the main thread: its flags, pending handlers and messages
  dispatch,   \* the calls of dispatchWorker on one worker and its messages
  replayLog,  \* the ReplayLog store, the LoggerWriter and the readers' map
  reader      \* one LoggerReader: its keys and its generator

vars ==
  <<cells, players, settings, moveCount, last, kinds, search, live,
    dispatch, replayLog, reader>>

-----------------------------------------------------------------------------
(* GameState.js: identifiers and constructors *)

USER == "user"
BOT == "bot"
PLAYER_ID == {USER, BOT}
NEW_VAULT == [self |-> 0, opponent |-> 0]

\* PlayerState._twoPlayer in the order createPlayer pushes the players
TwoPlayer == <<BOT, USER>>

IsMaximizing(pid) == pid = BOT

Opponent(pid) == IF pid = BOT THEN USER ELSE BOT

CellIds == 0..35

\* GridCell: _id = _row * 6 + _column
CellId(row, column) == row * 6 + column
Row(id) == id \div 6
Column(id) == id % 6

\* GridCell constructor defaults
GridCell(svgLayout, direction, dot) ==
  [svgLayout |-> svgLayout, direction |-> direction, dot |-> dot]

EmptyCell == GridCell(<<>>, 0, FALSE)

\* Player constructor
Player(turn, lastHorizontal, safetyTower, vault, winner) ==
  [turn |-> turn, lastHorizontal |-> lastHorizontal,
   safetyTower |-> safetyTower,
   vault |-> [self |-> vault.self, opponent |-> vault.opponent],
   winner |-> winner]

Min(a, b) == IF a <= b THEN a ELSE b
Max(a, b) == IF a >= b THEN a ELSE b

\* Player.safetyTower setter: Math.min(6, value)
SetSafetyTower(value) == Min(6, value)

\* a variant of the vault setter without the cap
SetVaultUncapped(value) == [self |-> value.self, opponent |-> value.opponent]

\* Player.vault setter: both counters through Math.min(6, .)
SetVault(value) ==
  [self |-> Min(6, value.self), opponent |-> Min(6, value.opponent)]

\* Array.prototype.at(-1) and at(0); "undefined" on an empty array
AtLast(layout) == IF Len(layout) = 0 THEN "undefined" ELSE layout[Len(layout)]
AtFirst(layout) == IF Len(layout) = 0 THEN "undefined" ELSE layout[1]

\* createBoard: user towers on rows 0 and 1 (direction 1), bot towers on
\* rows 4 and 5 (direction -1); createPlayer: the user moves first
StartCell(id) ==
  IF Row(id) = 0 \/ Row(id) = 1 THEN GridCell(<<USER>>, 1, FALSE)
  ELSE IF Row(id) = 5 \/ Row(id) = 4 THEN GridCell(<<BOT>>, -1, FALSE)
  ELSE EmptyCell

\* createPlayer: the PlayerState, keyed by the player id
NewPlayer(pid) == Player(pid = USER, FALSE, 0, NEW_VAULT, FALSE)

CreatePlayer == [bot |-> NewPlayer(BOT), user |-> NewPlayer(USER)]

CreateBoard ==
  [cells |-> [id \in CellIds |-> StartCell(id)], players |-> CreatePlayer]

-----------------------------------------------------------------------------
(* GameLogic.js *)

\* twoPlayer.find((player) => player.turn === true)
CurrentPlayer(bs) ==
  IF bs.players[TwoPlayer[1]].turn THEN TwoPlayer[1]
  ELSE IF bs.players[TwoPlayer[2]].turn THEN TwoPlayer[2]
  ELSE "undefined"

\* boardState.cells.find((inst) => inst.row === r && inst.column === c):
\* the cell id, or -1 for undefined
FindCell(r, c) ==
  IF r \in 0..5 /\ c \in 0..5 THEN CellId(r, c) ELSE -1

\* a variant that checks the right-hand columns before the left-hand ones
CandidatesRightFirst(bs, src, pid) ==
  LET x == Column(src)
      y == Row(src)
      dir == bs.cells[src].direction
      vertical == <<FindCell(y + dir, x), FindCell(y + 2 * dir, x)>>
      lateral == <<FindCell(y, (x + 7) % 6), FindCell(y, (x + 8) % 6),
                   FindCell(y, (x + 5) % 6), FindCell(y, (x + 4) % 6)>>
  IN IF bs.players[pid].lastHorizontal = FALSE
       THEN vertical \o lateral ELSE vertical

\* a variant without the lateral-move lock
CandidatesNoLock(bs, src, pid) ==
  LET x == Column(src)
      y == Row(src)
      dir == bs.cells[src].direction
      vertical == <<FindCell(y + dir, x), FindCell(y + 2 * dir, x)>>
      lateral == <<FindCell(y, (x + 5) % 6), FindCell(y, (x + 4) % 6),
                   FindCell(y, (x + 7) % 6), FindCell(y, (x + 8) % 6)>>
  IN vertical \o lateral

\* the six checks of getLocalMoves, in the order of the code
Candidates(bs, src, pid) ==
  LET x == Column(src)
      y == Row(src)
      dir == bs.cells[src].direction
      vertical == <<FindCell(y + dir, x), FindCell(y + 2 * dir, x)>>
      lateral == <<FindCell(y, (x + 5) % 6), FindCell(y, (x + 4) % 6),
                   FindCell(y, (x + 7) % 6), FindCell(y, (x + 8) % 6)>>
  IN IF bs.players[pid].lastHorizontal = FALSE
       THEN vertical \o lateral ELSE vertical

\* a variant that keeps every candidate on the board
KeepCandidateOnBoard(bs, src, n) == n # -1

\* neighbor && neighbor.svgLayout.at(-1) !== cellInst.svgLayout.at(-1)
KeepCandidate(bs, src, n) ==
  n # -1 /\ AtLast(bs.cells[n].svgLayout) # AtLast(bs.cells[src].svgLayout)

\* candidates.push(neighbor) for the candidates that pass the check
RECURSIVE PushCandidates(_, _, _, _)
PushCandidates(bs, src, cands, i) ==
  IF i > Len(cands) THEN <<>>
  ELSE (IF KeepCandidate(bs, src, cands[i]) THEN <<cands[i]>> ELSE <<>>)
       \o PushCandidates(bs, src, cands, i + 1)

GetLocalMoves(bs, src, pid) ==
  PushCandidates(bs, src, Candidates(bs, src, pid), 1)

\* cells.filter(top owner is the player), then the local moves of each
OwnsTower(bs, id, pid) ==
  Len(bs.cells[id].svgLayout) > 0 /\ AtLast(bs.cells[id].svgLayout) = pid

PairWith(src, tgts) == [i \in 1..Len(tgts) |-> <<src, tgts[i]>>]

\* the moves of the cells lo..hi in cell order (the forEach over the cells)
RECURSIVE MovesFromCells(_, _, _, _)
MovesFromCells(bs, pid, lo, hi) ==
  IF lo = hi
    THEN (IF OwnsTower(bs, lo, pid)
            THEN PairWith(lo, GetLocalMoves(bs, lo, pid)) ELSE <<>>)
    ELSE MovesFromCells(bs, pid, lo, (lo + hi) \div 2)
         \o MovesFromCells(bs, pid, (lo + hi) \div 2 + 1, hi)

GetAllPossibleMoves(bs, pid) == MovesFromCells(bs, pid, 0, 35)

\* a variant that does not compare the owners of the two towers
StackTowersErrorSourceOnly(bs, src, tgt) ==
  IF Len(bs.cells[src].svgLayout) = 0 THEN "source cell has no tower"
  ELSE "none"

\* stackTowers: the two throws
StackTowersError(bs, src, tgt) ==
  IF Len(bs.cells[src].svgLayout) = 0 THEN "source cell has no tower"
  ELSE IF Len(bs.cells[tgt].svgLayout) = 0 THEN "none"
  ELSE IF AtLast(bs.cells[src].svgLayout) # AtLast(bs.cells[tgt].svgLayout)
         THEN "none"
  ELSE "cannot stack towers of the same player"

\* a variant that shifts as soon as the stack is full
PushStoneAtCap(acc, stone, pid, maxStackSize) ==
  LET pushed == Append(acc.layout, stone)
  IN IF Len(pushed) >= maxStackSize
       THEN [layout |-> Tail(pushed),
             vault |-> SetVault(
               IF AtFirst(pushed) = pid
                 THEN [self |-> acc.vault.self + 1,
                       opponent |-> acc.vault.opponent]
                 ELSE [self |-> acc.vault.self,
                       opponent |-> acc.vault.opponent + 1])]
       ELSE [layout |-> pushed, vault |-> acc.vault]

\* a variant that credits every removed stone to vault.opponent
PushStoneOpponentOnly(acc, stone, pid, maxStackSize) ==
  LET pushed == Append(acc.layout, stone)
  IN IF Len(pushed) > maxStackSize
       THEN [layout |-> Tail(pushed),
             vault |-> SetVault([self |-> acc.vault.self,
                                 opponent |-> acc.vault.opponent + 1])]
       ELSE [layout |-> pushed, vault |-> acc.vault]

\* one pass of the for loop of stackTowers: push, then shift on overflow and
\* credit the vault of the player through its setter
PushStone(acc, stone, pid, maxStackSize) ==
  LET pushed == Append(acc.layout, stone)
  IN IF Len(pushed) > maxStackSize
       THEN [layout |-> Tail(pushed),
             vault |-> SetVault(
               IF AtFirst(pushed) = pid
                 THEN [self |-> acc.vault.self + 1,
                       opponent |-> acc.vault.opponent]
                 ELSE [self |-> acc.vault.self,
                       opponent |-> acc.vault.opponent + 1])]
       ELSE [layout |-> pushed, vault |-> acc.vault]

RECURSIVE StackLoop(_, _, _, _, _)
StackLoop(acc, srcLayout, i, pid, maxStackSize) ==
  IF i > Len(srcLayout) THEN acc
  ELSE StackLoop(PushStone(acc, srcLayout[i], pid, maxStackSize),
                 srcLayout, i + 1, pid, maxStackSize)

\* a variant in which an empty target shares the source's array, which is
\* then emptied together with the source
StackTowersAliased(bs, src, tgt, pid, maxStackSize) ==
  IF Len(bs.cells[tgt].svgLayout) = 0
    THEN [layout |-> <<>>, vault |-> bs.players[pid].vault]
    ELSE StackLoop([layout |-> bs.cells[tgt].svgLayout,
                    vault |-> bs.players[pid].vault],
                   bs.cells[src].svgLayout, 1, pid, maxStackSize)

\* stackTowers without its throws: [layout, vault] of the target and player
StackTowers(bs, src, tgt, pid, maxStackSize) ==
  IF Len(bs.cells[tgt].svgLayout) = 0
    THEN [layout |-> bs.cells[src].svgLayout, vault |-> bs.players[pid].vault]
    ELSE StackLoop([layout |-> bs.cells[tgt].svgLayout,
                    vault |-> bs.players[pid].vault],
                   bs.cells[src].svgLayout, 1, pid, maxStackSize)

\* a variant that adds -1 to the direction where the code multiplies
ReverseAtFarEdgeAdds(S, tgt, T) ==
  IF (AtLast(S.svgLayout) = USER /\ Row(tgt) = 5 /\ S.dot = FALSE)
     \/ (AtLast(S.svgLayout) = BOT /\ Row(tgt) = 0 /\ S.dot = FALSE)
    THEN [T EXCEPT !.direction = T.direction + (-1), !.dot = TRUE]
    ELSE T

\* the far-edge rules of playMove (the first two ifs)
ReverseAtFarEdge(S, tgt, T) ==
  IF (AtLast(S.svgLayout) = USER /\ Row(tgt) = 5 /\ S.dot = FALSE)
     \/ (AtLast(S.svgLayout) = BOT /\ Row(tgt) = 0 /\ S.dot = FALSE)
    THEN [T EXCEPT !.direction = T.direction * (-1), !.dot = TRUE]
    ELSE T

\* a variant that captures on the origin row whether reversed or not
SafetyCaptureAnyTower(S, tgt) ==
  (AtLast(S.svgLayout) = USER /\ Row(tgt) = 0)
  \/ (AtLast(S.svgLayout) = BOT /\ Row(tgt) = 5)

\* a variant that takes row 0 for the bot's capture edge
SafetyCaptureBotRowZero(S, tgt) ==
  (AtLast(S.svgLayout) = USER /\ Row(tgt) = 0 /\ S.dot = TRUE)
  \/ (AtLast(S.svgLayout) = BOT /\ Row(tgt) = 0 /\ S.dot = TRUE)

\* a variant that lets a reversed tower stand on its origin row
SafetyCaptureNever(S, tgt) == FALSE

\* the safety-zone rules of playMove (the last two ifs)
SafetyCapture(S, tgt) ==
  (AtLast(S.svgLayout) = USER /\ Row(tgt) = 0 /\ S.dot = TRUE)
  \/ (AtLast(S.svgLayout) = BOT /\ Row(tgt) = 5 /\ S.dot = TRUE)

\* a variant that never sets the lock
NeverHorizontal(src, tgt) == FALSE

\* player.lastHorizontal = tgtInst.row === srcInst.row
MovedHorizontal(src, tgt) == Row(tgt) = Row(src)

\* a variant where a conquered tower keeps the direction it had
PlayMoveKeepsDirection(bs, src, tgt, maxStackSize) ==
  LET pid == CurrentPlayer(bs)
      S == bs.cells[src]
      st == StackTowers(bs, src, tgt, pid, maxStackSize)
      T0 == GridCell(st.layout,
                     IF bs.cells[tgt].svgLayout = <<>> THEN S.direction
                     ELSE bs.cells[tgt].direction,
                     S.dot)
      T1 == ReverseAtFarEdge(S, tgt, T0)
      T2 == IF SafetyCapture(S, tgt) THEN EmptyCell ELSE T1
      safety == IF SafetyCapture(S, tgt)
                  THEN SetSafetyTower(bs.players[pid].safetyTower + 1)
                  ELSE bs.players[pid].safetyTower
  IN [cells |-> [bs.cells EXCEPT ![tgt] = T2, ![src] = EmptyCell],
      players |-> [bs.players EXCEPT
                     ![pid].vault = st.vault,
                     ![pid].safetyTower = safety,
                     ![pid].lastHorizontal = MovedHorizontal(src, tgt)]]

\* a variant that also clears the lateral-move lock of the opponent
PlayMoveClearsOpponentLock(bs, src, tgt, maxStackSize) ==
  LET pid == CurrentPlayer(bs)
      S == bs.cells[src]
      st == StackTowers(bs, src, tgt, pid, maxStackSize)
      T0 == GridCell(st.layout, S.direction, S.dot)
      T1 == ReverseAtFarEdge(S, tgt, T0)
      T2 == IF SafetyCapture(S, tgt) THEN EmptyCell ELSE T1
      safety == IF SafetyCapture(S, tgt)
                  THEN SetSafetyTower(bs.players[pid].safetyTower + 1)
                  ELSE bs.players[pid].safetyTower
  IN [cells |-> [bs.cells EXCEPT ![tgt] = T2, ![src] = EmptyCell],
      players |-> [bs.players EXCEPT
                     ![pid].vault = st.vault,
                     ![pid].safetyTower = safety,
                     ![pid].lastHorizontal = MovedHorizontal(src, tgt),
                     ![Opponent(pid)].lastHorizontal = FALSE]]

PlayMove(bs, src, tgt, maxStackSize) ==
  LET pid == CurrentPlayer(bs)
      S == bs.cells[src]
      st == StackTowers(bs, src, tgt, pid, maxStackSize)
      T0 == GridCell(st.layout, S.direction, S.dot)
      T1 == ReverseAtFarEdge(S, tgt, T0)
      T2 == IF SafetyCapture(S, tgt) THEN EmptyCell ELSE T1
      safety == IF SafetyCapture(S, tgt)
                  THEN SetSafetyTower(bs.players[pid].safetyTower + 1)
                  ELSE bs.players[pid].safetyTower
  IN [cells |-> [bs.cells EXCEPT ![tgt] = T2, ![src] = EmptyCell],
      players |-> [bs.players EXCEPT
                     ![pid].vault = st.vault,
                     ![pid].safetyTower = safety,
                     ![pid].lastHorizontal = MovedHorizontal(src, tgt)]]

\* a variant that gives the turn and never takes it
ToggleTurnOn(player) == [player EXCEPT !.turn = TRUE]

ToggleTurn(player) ==
  [player EXCEPT !.turn = IF player.turn = TRUE THEN FALSE ELSE TRUE]

SwitchPlayer(bs) ==
  [bs EXCEPT !.players = [bot |-> ToggleTurn(bs.players[BOT]),
                          user |-> ToggleTurn(bs.players[USER])]]

\* a variant that takes the zero-tower win without looking at the turn
WinConditionAnyTurn(bs, pid, cfg) ==
  \/ (cfg.materialOpponent > 0
      /\ bs.players[pid].vault.opponent >= cfg.materialOpponent)
  \/ bs.players[pid].safetyTower >= cfg.safetyZone
  \/ (\A id \in CellIds : AtLast(bs.cells[id].svgLayout) # Opponent(pid))
  \/ (\A id \in CellIds : AtLast(bs.cells[id].svgLayout) # pid)

\* a variant that guards the safety zone rule as the vault rule is guarded
WinConditionZoneGuarded(bs, pid, cfg) ==
  \/ (cfg.materialOpponent > 0
      /\ bs.players[pid].vault.opponent >= cfg.materialOpponent)
  \/ (cfg.safetyZone > 0
      /\ bs.players[pid].safetyTower >= cfg.safetyZone)
  \/ (bs.players[pid].turn = FALSE
      /\ ((\A id \in CellIds :
             AtLast(bs.cells[id].svgLayout) # Opponent(pid))
          \/ (\A id \in CellIds : AtLast(bs.cells[id].svgLayout) # pid)))

\* the condition under which checkWin returns true
WinCondition(bs, pid, cfg) ==
  \/ (cfg.materialOpponent > 0
      /\ bs.players[pid].vault.opponent >= cfg.materialOpponent)
  \/ bs.players[pid].safetyTower >= cfg.safetyZone
  \/ (bs.players[pid].turn = FALSE
      /\ ((\A id \in CellIds :
             AtLast(bs.cells[id].svgLayout) # Opponent(pid))
          \/ (\A id \in CellIds : AtLast(bs.cells[id].svgLayout) # pid)))

\* checkWin: the board state after the call (winner set on a win)
CheckWin(bs, pid, cfg) ==
  IF WinCondition(bs, pid, cfg)
    THEN [bs EXCEPT !.players[pid].winner = TRUE]
    ELSE bs

-----------------------------------------------------------------------------
(* GameState.js: BoardState.applyMoveAndTurn, Move, BoardState.undoMove *)

\* playMove throws before it has written anything: the board is unchanged
\* and the turn is not switched
ApplyMoveAndTurn(bs, src, tgt, maxStackSize) ==
  IF StackTowersError(bs, src, tgt) # "none" THEN bs
  ELSE SwitchPlayer(PlayMove(bs, src, tgt, maxStackSize))

\* Player.cloneInstance
ClonePlayer(player) ==
  Player(player.turn, player.lastHorizontal, player.safetyTower,
         player.vault, player.winner)

\* new Move(src.cloneInstance(), tgt.cloneInstance(),
\*          playerState.cloneInstance())
LoggedMove(bs, src, tgt) ==
  [srcId |-> src, tgtId |-> tgt,
   srcCell |-> GridCell(bs.cells[src].svgLayout, bs.cells[src].direction,
                        bs.cells[src].dot),
   tgtCell |-> GridCell(bs.cells[tgt].svgLayout, bs.cells[tgt].direction,
                        bs.cells[tgt].dot),
   playerState |-> [bot |-> ClonePlayer(bs.players[BOT]),
                    user |-> ClonePlayer(bs.players[USER])]]

\* a variant that leaves the vault as the move made it
RestorePlayerButVault(player, savedPlayer) ==
  [player EXCEPT
     !.turn = savedPlayer.turn,
     !.lastHorizontal = savedPlayer.lastHorizontal,
     !.safetyTower = SetSafetyTower(savedPlayer.safetyTower)]

\* a variant that writes the winner flag of the snapshot as well
RestorePlayerAndWinner(player, savedPlayer) ==
  [player EXCEPT
     !.turn = savedPlayer.turn,
     !.lastHorizontal = savedPlayer.lastHorizontal,
     !.safetyTower = SetSafetyTower(savedPlayer.safetyTower),
     !.vault = SetVault(savedPlayer.vault),
     !.winner = savedPlayer.winner]

\* undoMove, per player: turn, lastHorizontal, safetyTower and vault are
\* written through their setters
RestorePlayer(player, savedPlayer) ==
  [player EXCEPT
     !.turn = savedPlayer.turn,
     !.lastHorizontal = savedPlayer.lastHorizontal,
     !.safetyTower = SetSafetyTower(savedPlayer.safetyTower),
     !.vault = SetVault(savedPlayer.vault)]

\* undoMove: the source cell is written first, then the target cell, then
\* both players
UndoMove(bs, loggedMove) ==
  [cells |->
     [[bs.cells EXCEPT ![loggedMove.srcId] = loggedMove.srcCell]
        EXCEPT ![loggedMove.tgtId] = loggedMove.tgtCell],
   players |->
     [bot |-> RestorePlayer(bs.players[BOT], loggedMove.playerState[BOT]),
      user |-> RestorePlayer(bs.players[USER], loggedMove.playerState[USER])]]

-----------------------------------------------------------------------------
(* ConfigState.js: the factory settings, and the variations the model uses *)

FactorySettings ==
  [safetyZone |-> 1, materialOpponent |-> 6, maxStackSize |-> 3,
   depth |-> 5,
   conqueredTotalWeight |-> 70, conqueredOpponentWeight |-> 1,
   weightRowDistance |-> <<10, 10, 8, 7, 7>>,
   safetyZoneTotalDistance |-> 8,
   proximityOpponentWeight |-> 2, proximityTotalWeight |-> 10,
   accountedTotalWeight |-> 40]

\* settings saved from the sliders: the winning rules and the search depth
WithRules(safetyZone, materialOpponent, maxStackSize, depth) ==
  [FactorySettings EXCEPT !.safetyZone = safetyZone,
                          !.materialOpponent = materialOpponent,
                          !.maxStackSize = maxStackSize,
                          !.depth = depth]

-----------------------------------------------------------------------------
(* GameEventLoop.js: one move of the live loop, and resetGame *)

\* playUserMove / playBotMove: applyMoveAndTurn, then checkWin for the mover
\* (the player whose turn is now false)
LiveMove(bs, src, tgt, cfg) ==
  LET mover == CurrentPlayer(bs)
  IN IF StackTowersError(bs, src, tgt) # "none" THEN bs
     ELSE CheckWin(ApplyMoveAndTurn(bs, src, tgt, cfg.maxStackSize),
                   mover, cfg)

\* the board is disabled after a win until resetGame
GameOver(bs) == \E pid \in PLAYER_ID : bs.players[pid].winner

SeqToSet(s) == {s[i] : i \in 1..Len(s)}

MoveKind(src, tgt) == IF Row(src) = Row(tgt) THEN "lateral" ELSE "vertical"

\* history of a player's own move kinds: the last two are kept
Remember(ks, kind) ==
  IF Len(ks) < 2 THEN Append(ks, kind) ELSE <<ks[2], kind>>

\* the state of a game: the board and the history variables
NewGame ==
  [bs |-> CreateBoard, legal |-> TRUE,
   kinds |-> [bot |-> <<>>, user |-> <<>>]]

GameStep(g, move, cfg) ==
  LET mover == CurrentPlayer(g.bs)
  IN [bs |-> LiveMove(g.bs, move[1], move[2], cfg),
      legal |-> g.legal /\ ~GameOver(g.bs)
                /\ move \in SeqToSet(GetAllPossibleMoves(g.bs, mover)),
      kinds |-> [g.kinds EXCEPT
                   ![mover] = Remember(@, MoveKind(move[1], move[2]))]]

\* the game after a line of play from the start position of createBoard
RECURSIVE PlayFrom(_, _, _, _)
PlayFrom(g, line, i, cfg) ==
  IF i > Len(line) THEN g
  ELSE CHOOSE r \in {PlayFrom(h, line, i + 1, cfg) :
                       h \in {GameStep(g, line[i], cfg)}} : TRUE

PlayLine(line, cfg) == PlayFrom(NewGame, line, 1, cfg)

-----------------------------------------------------------------------------
(* The game of legal play.  A start is a line of play from the position of *)
(* createBoard together with the settings it is played under; every move   *)
(* of a line is a generated move and no line passes a win.                 *)

MaxMoves == 2

\* both towers of columns 1 and 4 walk to the far edge and back
PreReverse == <<<<7, 19>>, <<28, 16>>, <<1, 13>>, <<34, 22>>>>
PreCapture ==
  PreReverse \o <<<<19, 31>>, <<16, 4>>, <<31, 19>>, <<4, 16>>,
                  <<19, 7>>, <<16, 28>>>>
\* towers conquered back and forth on cell 19
Contact ==
  <<<<7, 19>>, <<25, 19>>, <<8, 20>>, <<31, 25>>, <<20, 19>>, <<25, 19>>>>
\* the bot has six opponent stones in its vault (stacks of one stone)
VaultOpponentFull ==
  <<<<10, 22>>, <<28, 22>>, <<4, 16>>, <<22, 16>>, <<0, 12>>, <<24, 12>>,
    <<6, 12>>, <<16, 12>>, <<7, 13>>, <<25, 13>>, <<1, 13>>, <<12, 13>>,
    <<5, 17>>>>
\* both players have six own stones in their vaults (stacks of two stones)
VaultSelfFull ==
  <<<<6, 12>>, <<30, 18>>, <<10, 22>>, <<18, 12>>, <<0, 12>>, <<24, 12>>,
    <<1, 13>>, <<12, 14>>, <<2, 14>>, <<26, 14>>, <<13, 14>>, <<31, 19>>,
    <<14, 20>>, <<32, 20>>, <<8, 20>>, <<19, 20>>, <<22, 20>>, <<35, 23>>,
    <<11, 23>>, <<29, 23>>, <<20, 21>>, <<33, 21>>, <<9, 21>>>>
\* the bot can stack a tower of two onto a tower of two (stacks of two)
MixedTowers == <<<<7, 19>>, <<25, 19>>, <<9, 21>>, <<26, 20>>, <<21, 20>>>>
\* a reversed tower of the user two rows from an occupied cell of row 0
HomeOccupied ==
  <<<<6, 18>>, <<24, 12>>, <<18, 30>>, <<31, 19>>, <<3, 15>>, <<19, 13>>,
    <<8, 6>>, <<34, 22>>, <<30, 24>>, <<27, 21>>, <<6, 18>>, <<13, 7>>,
    <<1, 7>>, <<28, 16>>, <<4, 3>>, <<12, 0>>, <<15, 21>>, <<16, 17>>,
    <<24, 12>>>>

\* late positions with the bot to move and few towers left
\* two bot towers against five: the search cuts branches off
EndgameCut ==
  <<<<0, 12>>, <<24, 12>>, <<6, 12>>, <<27, 15>>, <<3, 15>>, <<25, 24>>,
    <<12, 24>>, <<30, 24>>, <<5, 17>>, <<29, 17>>, <<15, 17>>, <<28, 16>>,
    <<4, 16>>, <<33, 21>>, <<9, 21>>, <<34, 33>>, <<21, 33>>, <<35, 29>>,
    <<33, 32>>, <<29, 17>>, <<11, 17>>, <<31, 32>>, <<1, 0>>, <<32, 20>>,
    <<7, 19>>, <<20, 8>>, <<2, 8>>, <<26, 25>>, <<19, 25>>>>
\* the user wins whatever the bot plays
EndgameLost ==
  <<<<4, 16>>, <<28, 16>>, <<10, 22>>, <<16, 10>>, <<6, 10>>, <<34, 22>>,
    <<10, 22>>, <<29, 28>>, <<22, 28>>, <<32, 20>>, <<7, 13>>, <<20, 8>>,
    <<28, 27>>, <<8, 9>>, <<3, 9>>, <<25, 13>>, <<27, 26>>, <<24, 26>>,
    <<1, 13>>, <<35, 23>>, <<11, 23>>, <<30, 35>>, <<23, 35>>, <<33, 27>>,
    <<35, 31>>, <<27, 29>>, <<5, 11>>, <<29, 23>>, <<11, 23>>, <<26, 27>>,
    <<31, 25>>>>
\* one bot tower: its last two moves score the same, the others lose
EndgameTie ==
  <<<<11, 17>>, <<29, 17>>, <<5, 17>>, <<28, 22>>, <<10, 22>>, <<34, 22>>,
    <<9, 21>>, <<35, 23>>, <<17, 23>>, <<22, 23>>, <<0, 12>>, <<27, 21>>,
    <<12, 24>>, <<25, 19>>, <<24, 30>>, <<26, 20>>, <<7, 19>>, <<31, 19>>,
    <<8, 20>>, <<21, 15>>, <<20, 19>>, <<15, 3>>, <<2, 8>>, <<32, 30>>,
    <<4, 3>>, <<30, 18>>, <<6, 18>>, <<23, 19>>, <<18, 19>>, <<33, 27>>,
    <<8, 20>>>>

\* the bot's three towers stand in one column on rows 0, 1 and 2 and its
\* last move was lateral: the bot is to move and no move is legal
BotBlocked ==
  <<<<6, 18>>, <<28, 16>>, <<18, 24>>, <<16, 4>>, <<24, 30>>, <<34, 22>>,
    <<30, 32>>, <<22, 10>>, <<32, 26>>, <<27, 15>>, <<26, 25>>, <<35, 23>>,
    <<11, 23>>, <<31, 19>>, <<25, 29>>, <<33, 35>>, <<23, 35>>, <<19, 7>>,
    <<1, 7>>, <<15, 16>>, <<7, 6>>>>

\* the user's three towers stand in one column on rows 3, 4 and 5 and the
\* user's last move was lateral: after the bot's move 14-8 the user is to
\* move and no move is legal
UserBlocked ==
  <<<<6, 18>>, <<24, 18>>, <<3, 15>>, <<27, 15>>, <<7, 19>>, <<15, 9>>,
    <<0, 6>>, <<9, 10>>, <<19, 31>>, <<18, 6>>, <<1, 13>>, <<10, 11>>,
    <<13, 25>>, <<11, 5>>, <<8, 20>>, <<5, 4>>, <<2, 14>>, <<26, 14>>,
    <<20, 19>>, <<14, 8>>>>

Starts ==
  {[line |-> <<>>, cfg |-> FactorySettings],
   [line |-> PreReverse, cfg |-> FactorySettings],
   [line |-> SubSeq(PreCapture, 1, 6), cfg |-> FactorySettings],
   [line |-> PreCapture, cfg |-> FactorySettings],
   [line |-> PreCapture, cfg |-> WithRules(6, 0, 3, 5)],
   [line |-> Contact, cfg |-> WithRules(1, 6, 2, 5)],
   [line |-> Contact \o <<<<9, 21>>>>, cfg |-> FactorySettings],
   [line |-> VaultOpponentFull, cfg |-> WithRules(6, 0, 1, 5)],
   [line |-> VaultSelfFull, cfg |-> WithRules(6, 0, 2, 5)],
   [line |-> MixedTowers, cfg |-> WithRules(6, 0, 2, 5)],
   [line |-> HomeOccupied, cfg |-> WithRules(6, 0, 3, 5)],
   [line |-> MixedTowers, cfg |-> WithRules(6, 1, 2, 5)],
   [line |-> EndgameLost, cfg |-> WithRules(6, 0, 3, 5)],
   [line |-> SubSeq(BotBlocked, 1, 19), cfg |-> FactorySettings]}

\* the AI worker before a request: no call on the stack; its board is
\* replaced by the board of the request
NoMove == <<-1, -1>>
NoLoggedMove == [srcId |-> -1, tgtId |-> -1]
Idle ==
  [phase |-> "idle", bs |-> CreateBoard, input |-> CreateBoard,
   stack |-> <<>>, result |-> NoMove, error |-> "none"]

\* the main thread after start or after resetGame with nothing pending:
\* board events enabled, no request out, no dialog, the first AI worker
LiveIdle ==
  [disableBoardEvents |-> FALSE, waitForWebWorker |-> FALSE,
   dialog |-> FALSE, aiWorker |-> 0, clicks |-> 0,
   tasks |-> <<>>, requests |-> <<>>, port |-> <<>>]

\* no call of dispatchWorker made yet; cleanUp tells which of the two bodies
\* of dispatchWorker the page runs: the one whose handlers call
\* resourceCleanUp, or the one of AsyncAPIWrapper.js
DispatchIdle ==
  [cleanUp |-> FALSE, calls |-> <<>>, inbox |-> <<>>, port |-> <<>>]

\* the page loaded on an empty ReplayLog store: new LoggerWriter(boardState)
\* has read the clock for its gameId, LoggerReader.instances is empty
LogEmpty ==
  [clock |-> 1, gameId |-> 1, move |-> 0, store |-> {}, instances |-> {},
   threw |-> FALSE]

\* new LoggerReader(gameId): no key, the generator not started
ReaderIdle ==
  [primaryKeys |-> <<>>,
   generator |-> [at |-> "start", cursorIndex |-> 0, steps |-> 0],
   calls |-> 0, advanceSteps |-> 0, value |-> 0, error |-> "none"]

Board == [cells |-> cells, players |-> players]

Init ==
  \E s \in Starts :
    LET g == PlayLine(s.line, s.cfg)
    IN /\ g.legal
       /\ cells = g.bs.cells
       /\ players = g.bs.players
       /\ settings = s.cfg
       /\ moveCount = 0
       /\ kinds = g.kinds
       /\ last = [op |-> "start", src |-> -1, tgt |-> -1,
                  mover |-> "undefined", pre |-> g.bs]
       /\ search = Idle
       /\ live = LiveIdle
       /\ dispatch = DispatchIdle
       /\ replayLog = LogEmpty
       /\ reader = ReaderIdle

\* one move of the live loop by the player pid
Play(pid, move) ==
  /\ moveCount < MaxMoves
  /\ ~GameOver(Board)
  /\ CurrentPlayer(Board) = pid
  /\ LET bs == LiveMove(Board, move[1], move[2], settings)
     IN /\ cells' = bs.cells
        /\ players' = bs.players
  /\ moveCount' = moveCount + 1
  /\ kinds' = [kinds EXCEPT ![pid] = Remember(@, MoveKind(move[1], move[2]))]
  /\ last' = [op |-> "move", src |-> move[1], tgt |-> move[2],
              mover |-> pid, pre |-> Board]
  /\ UNCHANGED <<settings, search, live, dispatch, replayLog, reader>>

\* playUserMove: the user clicks a target offered for the marked own tower
UserMove ==
  \E move \in SeqToSet(GetAllPossibleMoves(Board, USER)) : Play(USER, move)

\* playBotMove: the worker answers with a move of getAllPossibleMoves
BotMove ==
  \E move \in SeqToSet(GetAllPossibleMoves(Board, BOT)) : Play(BOT, move)

\* resetGame, per player
ResetPlayer(player, pid) ==
  [player EXCEPT
     !.turn = (pid # BOT), !.lastHorizontal = FALSE,
     !.safetyTower = SetSafetyTower(0),
     !.vault = [self |-> 0, opponent |-> 0],
     !.winner = FALSE]

\* resetGame: the position of createBoard, the user to move
ResetGame ==
  /\ moveCount > 0
  /\ cells' = CreateBoard.cells
  /\ players' = [bot |-> ResetPlayer(players[BOT], BOT),
                  user |-> ResetPlayer(players[USER], USER)]
  /\ moveCount' = 0
  /\ kinds' = [bot |-> <<>>, user |-> <<>>]
  /\ last' = [op |-> "reset", src |-> -1, tgt |-> -1, mover |-> "undefined",
              pre |-> [cells |-> cells', players |-> players']]
  /\ UNCHANGED <<settings, search, live, dispatch, replayLog, reader>>

\* the cells in the row and in the column of a cell
InLine(src) ==
  {id \in CellIds : id # src /\ (Row(id) = Row(src) \/ Column(id) = Column(src))}

\* applyMoveAndTurn called with a pair of cells that stackTowers refuses
\* (no caller in the code sends one); tried on the positions a game of the
\* model starts from. A second try on the unchanged board would reach the
\* states of the first.
ApplyInvalidMove ==
  /\ moveCount = 0
  /\ last.op # "rejected"
  /\ \E src \in CellIds : \E tgt \in InLine(src) :
       /\ StackTowersError(Board, src, tgt) # "none"
       /\ LET bs == ApplyMoveAndTurn(Board, src, tgt, settings.maxStackSize)
          IN /\ cells' = bs.cells
             /\ players' = bs.players
       /\ last' = [op |-> "rejected", src |-> src, tgt |-> tgt,
                   mover |-> CurrentPlayer(Board), pre |-> Board]
  /\ UNCHANGED <<settings, moveCount, kinds, search, live,
               dispatch, replayLog, reader>>

Next == UserMove \/ BotMove \/ ResetGame \/ ApplyInvalidMove

Spec == Init /\ [][Next]_vars

-----------------------------------------------------------------------------
(* MinimaxAB.js: getTerminalNodeState *)

\* Infinity and -Infinity dominate every heuristic score of a 6x6 board
Infinity == 1000000

TowersOf(bs, pid) ==
  {id \in CellIds : AtLast(bs.cells[id].svgLayout) = pid}

\* towers in reverse movement that count for the proximity terms
ReversedTowersOf(bs, pid, cfg) ==
  {id \in TowersOf(bs, pid) : cfg.safetyZone > 0 /\ bs.cells[id].dot = TRUE}

\* const rowDistance = 5 - cell.row (bot), cell.row (user)
RowDistance(id, pid) == IF pid = BOT THEN 5 - Row(id) ELSE Row(id)

\* the switch over rowDistance: its default branch throws
EvaluationThrows(bs, cfg) ==
  \E pid \in PLAYER_ID : \E id \in ReversedTowersOf(bs, pid, cfg) :
    RowDistance(id, pid) \notin 1..5

ReversedAt(bs, pid, cfg, d) ==
  Cardinality({id \in ReversedTowersOf(bs, pid, cfg) : RowDistance(id, pid) = d})

\* botTowerSafetyWeight / userTowerSafetyWeight
TowerSafetyWeight(bs, pid, cfg) ==
  ReversedAt(bs, pid, cfg, 1) * cfg.weightRowDistance[1]
  + ReversedAt(bs, pid, cfg, 2) * cfg.weightRowDistance[2]
  + ReversedAt(bs, pid, cfg, 3) * cfg.weightRowDistance[3]
  + ReversedAt(bs, pid, cfg, 4) * cfg.weightRowDistance[4]
  + ReversedAt(bs, pid, cfg, 5) * cfg.weightRowDistance[5]

\* a variant that grants the bonus only to a player with a tower in reverse
\* movement
TowerTotalSafetyDistanceReversedOnly(bs, pid, cfg) ==
  LET total == ReversedAt(bs, pid, cfg, 1) + 2 * ReversedAt(bs, pid, cfg, 2)
               + 3 * ReversedAt(bs, pid, cfg, 3)
               + 4 * ReversedAt(bs, pid, cfg, 4)
               + 5 * ReversedAt(bs, pid, cfg, 5)
  IN IF total > 4 \/ total = 0 THEN 0 ELSE 1

\* botTowerTotalSafetyDistance / userTowerTotalSafetyDistance, after the
\* "> 4" test has replaced the sum by 0 or 1
TowerTotalSafetyDistance(bs, pid, cfg) ==
  LET total == ReversedAt(bs, pid, cfg, 1) + 2 * ReversedAt(bs, pid, cfg, 2)
               + 3 * ReversedAt(bs, pid, cfg, 3)
               + 4 * ReversedAt(bs, pid, cfg, 4)
               + 5 * ReversedAt(bs, pid, cfg, 5)
  IN IF total > 4 THEN 0 ELSE 1

\* the heuristic score at the maximum search depth; every weight of the
\* settings the model uses is an integer, so Math.round gets an integer
HeuristicScore(bs, cfg) ==
  LET conquered ==
        (Cardinality(TowersOf(bs, BOT))
         - cfg.conqueredOpponentWeight * Cardinality(TowersOf(bs, USER)))
        * cfg.conqueredTotalWeight
      proximity ==
        (TowerSafetyWeight(bs, BOT, cfg)
         - cfg.proximityOpponentWeight * TowerSafetyWeight(bs, USER, cfg))
        * cfg.proximityTotalWeight
      distance ==
        (TowerTotalSafetyDistance(bs, BOT, cfg)
         - TowerTotalSafetyDistance(bs, USER, cfg)
           * cfg.proximityOpponentWeight)
        * cfg.safetyZoneTotalDistance * cfg.proximityTotalWeight
      accounted ==
        (bs.players[BOT].vault.opponent - bs.players[USER].vault.opponent)
        * cfg.accountedTotalWeight
  IN conquered
     + (IF cfg.safetyZone > 0 THEN proximity + distance ELSE 0)
     + (IF cfg.materialOpponent > 0 THEN accounted ELSE 0)

\* a variant whose leaves are one call deeper
GetTerminalNodeStateOneDeeper(bs, depth, cfg) ==
  IF WinCondition(bs, BOT, cfg)
    THEN [bs |-> CheckWin(bs, BOT, cfg), isNull |-> FALSE,
          score |-> Infinity, threw |-> FALSE]
  ELSE IF WinCondition(bs, USER, cfg)
    THEN [bs |-> CheckWin(bs, USER, cfg), isNull |-> FALSE,
          score |-> -Infinity, threw |-> FALSE]
  ELSE IF depth = cfg.depth + 1
    THEN IF EvaluationThrows(bs, cfg)
           THEN [bs |-> bs, isNull |-> TRUE, score |-> 0, threw |-> TRUE]
           ELSE [bs |-> bs, isNull |-> FALSE,
                 score |-> HeuristicScore(bs, cfg), threw |-> FALSE]
  ELSE [bs |-> bs, isNull |-> TRUE, score |-> 0, threw |-> FALSE]

\* a variant that looks at the depth before it looks at the wins
GetTerminalNodeStateDepthFirst(bs, depth, cfg) ==
  IF depth = cfg.depth
    THEN IF EvaluationThrows(bs, cfg)
           THEN [bs |-> bs, isNull |-> TRUE, score |-> 0, threw |-> TRUE]
           ELSE [bs |-> bs, isNull |-> FALSE,
                 score |-> HeuristicScore(bs, cfg), threw |-> FALSE]
  ELSE IF WinCondition(bs, BOT, cfg)
    THEN [bs |-> CheckWin(bs, BOT, cfg), isNull |-> FALSE,
          score |-> Infinity, threw |-> FALSE]
  ELSE IF WinCondition(bs, USER, cfg)
    THEN [bs |-> CheckWin(bs, USER, cfg), isNull |-> FALSE,
          score |-> -Infinity, threw |-> FALSE]
  ELSE [bs |-> bs, isNull |-> TRUE, score |-> 0, threw |-> FALSE]

\* getTerminalNodeState: the evaluation (null: none), whether it threw, and
\* the board the two checkWin calls leave behind
GetTerminalNodeState(bs, depth, cfg) ==
  IF WinCondition(bs, BOT, cfg)
    THEN [bs |-> CheckWin(bs, BOT, cfg), isNull |-> FALSE,
          score |-> Infinity, threw |-> FALSE]
  ELSE IF WinCondition(bs, USER, cfg)
    THEN [bs |-> CheckWin(bs, USER, cfg), isNull |-> FALSE,
          score |-> -Infinity, threw |-> FALSE]
  ELSE IF depth = cfg.depth
    THEN IF EvaluationThrows(bs, cfg)
           THEN [bs |-> bs, isNull |-> TRUE, score |-> 0, threw |-> TRUE]
           ELSE [bs |-> bs, isNull |-> FALSE,
                 score |-> HeuristicScore(bs, cfg), threw |-> FALSE]
  ELSE [bs |-> bs, isNull |-> TRUE, score |-> 0, threw |-> FALSE]

-----------------------------------------------------------------------------
(* AiWorker.js, MinimaxAB.js: findBestMove and minimax, one step at a time.
   The worker searches on its own clone of the board (search.bs); the call
   stack is search.stack, the frame of findBestMove at the bottom. *)

\* the frame of a call: state is "enter" before getTerminalNodeState ran,
\* "loop" between two passes of the for loop, "return" with the value.
\* entry (the board at the call) and cut (breaks that skipped a move, in
\* the call and below it) are history.
Frame(kind, state, depth, alpha, beta, entry) ==
  [kind |-> kind, state |-> state, depth |-> depth,
   alpha |-> alpha, beta |-> beta,
   maximizing |-> TRUE, eval |-> -Infinity,
   moves |-> <<>>, i |-> 1, loggedMove |-> NoLoggedMove,
   value |-> 0, bestMove |-> NoMove, scores |-> <<>>,
   entry |-> entry, cut |-> 0]

Top == search.stack[Len(search.stack)]
Caller == search.stack[Len(search.stack) - 1]
Searching == search.phase = "searching"

\* a variant that looks for the moves only inside the loop: without a
\* legal move it returns possibleMoves[0], which is undefined
FindBestMoveStartUnchecked(bs, cfg) ==
  LET pid == CurrentPlayer(bs)
      possibleMoves == GetAllPossibleMoves(bs, pid)
  IN IF IsMaximizing(pid) = FALSE
       THEN [Idle EXCEPT !.phase = "threw", !.bs = bs, !.input = bs,
               !.error = "findBestMove must be invoked for the bot AI opponent (maximizing player)."]
     ELSE [Idle EXCEPT
             !.phase = "searching", !.bs = bs, !.input = bs,
             !.stack = <<[Frame("root", "loop", -1, -Infinity, Infinity, bs)
                            EXCEPT !.moves = possibleMoves]>>]

\* findBestMove up to its for loop: the two throws, best_score, best_move
\* and possibleMoves
FindBestMoveStart(bs, cfg) ==
  LET pid == CurrentPlayer(bs)
      possibleMoves == GetAllPossibleMoves(bs, pid)
  IN IF IsMaximizing(pid) = FALSE
       THEN [Idle EXCEPT !.phase = "threw", !.bs = bs, !.input = bs,
               !.error = "findBestMove must be invoked for the bot AI opponent (maximizing player)."]
     ELSE IF Len(possibleMoves) = 0
       THEN [Idle EXCEPT !.phase = "threw", !.bs = bs, !.input = bs,
               !.error = "could not determine possible moves"]
     ELSE [Idle EXCEPT
             !.phase = "searching", !.bs = bs, !.input = bs,
             !.stack = <<[Frame("root", "loop", -1, -Infinity, Infinity, bs)
                            EXCEPT !.moves = possibleMoves]>>]

\* the message handler of the worker: the board of the request is rebuilt
\* (BoardState.createFromStructuredClone) and findBestMove is called
Dispatch ==
  /\ search.phase = "idle"
  /\ search' = FindBestMoveStart(Board, settings)
  /\ UNCHANGED <<cells, players, settings, moveCount, last, kinds, live,
               dispatch, replayLog, reader>>

\* one pass of a for loop up to the recursive call: new Move(...),
\* applyMoveAndTurn, minimax(boardState, depth, alpha, beta)
ApplyAndCall(depth, alpha, beta) ==
  LET move == Top.moves[Top.i]
      loggedMove == LoggedMove(search.bs, move[1], move[2])
      bs == ApplyMoveAndTurn(search.bs, move[1], move[2],
                             settings.maxStackSize)
  IN search' =
       [search EXCEPT
          !.bs = bs,
          !.stack = [search.stack EXCEPT
                       ![Len(search.stack)].loggedMove = loggedMove]
                    \o <<Frame("minimax", "enter", depth, alpha, beta, bs)>>]

\* findBestMove: the for loop calls minimax(boardState, 0, -Infinity,
\* Infinity) for the next root move
RootApply ==
  /\ Searching
  /\ Top.kind = "root" /\ Top.i <= Len(Top.moves)
  /\ ApplyAndCall(0, -Infinity, Infinity)
  /\ UNCHANGED <<cells, players, settings, moveCount, last, kinds, live,
               dispatch, replayLog, reader>>

\* minimax up to its for loop: currentPlayer, getTerminalNodeState, and
\* max_eval / min_eval and possibleMoves when the node is not terminal
MinimaxEnter ==
  /\ Searching
  /\ Top.kind = "minimax" /\ Top.state = "enter"
  /\ LET currentPlayer == CurrentPlayer(search.bs)
         evaluation == GetTerminalNodeState(search.bs, Top.depth, settings)
         n == Len(search.stack)
     IN search' =
          IF evaluation.threw
            THEN [search EXCEPT
                    !.phase = "threw",
                    !.error = "Evaluation error for invalid material position"]
          ELSE IF evaluation.isNull = FALSE
            THEN [search EXCEPT
                    !.bs = evaluation.bs,
                    !.stack[n].state = "return",
                    !.stack[n].value = evaluation.score]
          ELSE [search EXCEPT
                  !.bs = evaluation.bs,
                  !.stack[n].state = "loop",
                  !.stack[n].maximizing = IsMaximizing(currentPlayer),
                  !.stack[n].eval = IF IsMaximizing(currentPlayer)
                                      THEN -Infinity ELSE Infinity,
                  !.stack[n].moves =
                     GetAllPossibleMoves(evaluation.bs, currentPlayer),
                  !.stack[n].i = 1]
  /\ UNCHANGED <<cells, players, settings, moveCount, last, kinds, live,
               dispatch, replayLog, reader>>

\* minimax: the for loop calls minimax(boardState, depth + 1, alpha, beta)
\* for the next move
MinimaxApply ==
  /\ Searching
  /\ Top.kind = "minimax" /\ Top.state = "loop" /\ Top.i <= Len(Top.moves)
  /\ ApplyAndCall(Top.depth + 1, Top.alpha, Top.beta)
  /\ UNCHANGED <<cells, players, settings, moveCount, last, kinds, live,
               dispatch, replayLog, reader>>

\* a variant that throws when the loop had no move to go through
MinimaxLoopEndThrows ==
  /\ Searching
  /\ Top.kind = "minimax" /\ Top.state = "loop" /\ Top.i > Len(Top.moves)
  /\ search' = IF Top.moves = <<>>
                 THEN [search EXCEPT
                         !.phase = "threw",
                         !.error = "could not determine possible moves"]
                 ELSE [search EXCEPT
                         !.stack[Len(search.stack)].state = "return",
                         !.stack[Len(search.stack)].value = Top.eval]
  /\ UNCHANGED <<cells, players, settings, moveCount, last, kinds, live,
               dispatch, replayLog, reader>>

\* minimax: the for loop has run through: return max_eval / min_eval
MinimaxLoopEnd ==
  /\ Searching
  /\ Top.kind = "minimax" /\ Top.state = "loop" /\ Top.i > Len(Top.moves)
  /\ search' = [search EXCEPT
                  !.stack[Len(search.stack)].state = "return",
                  !.stack[Len(search.stack)].value = Top.eval]
  /\ UNCHANGED <<cells, players, settings, moveCount, last, kinds, live,
               dispatch, replayLog, reader>>

\* a variant whose break tests alpha <= beta
AfterCallBreakReversed(frame, evaluate, cut) ==
  LET eval == IF frame.maximizing THEN Max(frame.eval, evaluate)
              ELSE Min(frame.eval, evaluate)
      alpha == IF frame.maximizing THEN Max(frame.alpha, eval)
               ELSE frame.alpha
      beta == IF frame.maximizing THEN frame.beta
              ELSE Min(frame.beta, eval)
      skipped == IF alpha <= beta /\ frame.i < Len(frame.moves)
                   THEN 1 ELSE 0
  IN IF alpha <= beta
       THEN [frame EXCEPT !.eval = eval, !.alpha = alpha, !.beta = beta,
                          !.state = "return", !.value = eval,
                          !.cut = frame.cut + cut + skipped]
       ELSE [frame EXCEPT !.eval = eval, !.alpha = alpha, !.beta = beta,
                          !.i = frame.i + 1, !.cut = frame.cut + cut]

\* the rest of a pass of the for loop of minimax, for the maximizing and
\* for the minimizing player: max_eval / min_eval, alpha / beta, and the
\* break on beta <= alpha
AfterCall(frame, evaluate, cut) ==
  LET eval == IF frame.maximizing THEN Max(frame.eval, evaluate)
              ELSE Min(frame.eval, evaluate)
      alpha == IF frame.maximizing THEN Max(frame.alpha, eval)
               ELSE frame.alpha
      beta == IF frame.maximizing THEN frame.beta
              ELSE Min(frame.beta, eval)
      skipped == IF beta <= alpha /\ frame.i < Len(frame.moves)
                   THEN 1 ELSE 0
  IN IF beta <= alpha
       THEN [frame EXCEPT !.eval = eval, !.alpha = alpha, !.beta = beta,
                          !.state = "return", !.value = eval,
                          !.cut = frame.cut + cut + skipped]
       ELSE [frame EXCEPT !.eval = eval, !.alpha = alpha, !.beta = beta,
                          !.i = frame.i + 1, !.cut = frame.cut + cut]

\* minimax: a recursive call has returned: undoMove, then the rest of the
\* pass
MinimaxReturn ==
  /\ Searching
  /\ Len(search.stack) >= 2
  /\ Top.state = "return" /\ Caller.kind = "minimax"
  /\ search' =
       [search EXCEPT
          !.bs = UndoMove(search.bs, Caller.loggedMove),
          !.stack = Append(SubSeq(search.stack, 1, Len(search.stack) - 2),
                           AfterCall(Caller, Top.value, Top.cut))]
  /\ UNCHANGED <<cells, players, settings, moveCount, last, kinds, live,
               dispatch, replayLog, reader>>

\* a variant that compares with >=
AfterRootCallLatest(frame, score, cut) ==
  IF score >= frame.eval
    THEN [frame EXCEPT !.eval = score, !.bestMove = frame.moves[frame.i],
                       !.scores = Append(frame.scores, score),
                       !.i = frame.i + 1, !.cut = frame.cut + cut]
    ELSE [frame EXCEPT !.scores = Append(frame.scores, score),
                       !.i = frame.i + 1, !.cut = frame.cut + cut]

\* the rest of a pass of the for loop of findBestMove: score_for_this_move
\* > best_score (eval is best_score, scores the scores so far)
AfterRootCall(frame, score, cut) ==
  IF score > frame.eval
    THEN [frame EXCEPT !.eval = score, !.bestMove = frame.moves[frame.i],
                       !.scores = Append(frame.scores, score),
                       !.i = frame.i + 1, !.cut = frame.cut + cut]
    ELSE [frame EXCEPT !.scores = Append(frame.scores, score),
                       !.i = frame.i + 1, !.cut = frame.cut + cut]

\* findBestMove: minimax has returned the score of a root move: undoMove,
\* then the comparison
RootReturn ==
  /\ Searching
  /\ Len(search.stack) = 2
  /\ Top.state = "return" /\ Caller.kind = "root"
  /\ search' =
       [search EXCEPT
          !.bs = UndoMove(search.bs, Caller.loggedMove),
          !.stack = <<AfterRootCall(Caller, Top.value, Top.cut)>>]
  /\ UNCHANGED <<cells, players, settings, moveCount, last, kinds, live,
               dispatch, replayLog, reader>>

\* return best_move === null ? possibleMoves[0] : best_move
BestMoveOrFirst(frame) ==
  IF frame.bestMove = NoMove THEN frame.moves[1] ELSE frame.bestMove

\* findBestMove returns and the worker posts the move
FindBestMoveReturn ==
  /\ Searching
  /\ Top.kind = "root" /\ Top.i > Len(Top.moves)
  /\ search' = [search EXCEPT !.phase = "done",
                              !.result = BestMoveOrFirst(Top)]
  /\ UNCHANGED <<cells, players, settings, moveCount, last, kinds, live,
               dispatch, replayLog, reader>>

\* positions with the bot to move, and the search depth of the settings;
\* the last two have the user to move: the handler of the worker passes
\* such a board to findBestMove as it is
SearchStarts ==
  {[line |-> Contact \o <<<<9, 21>>>>, cfg |-> WithRules(1, 6, 3, 0)],
   [line |-> PreCapture \o <<<<0, 12>>>>, cfg |-> WithRules(1, 6, 3, 1)],
   [line |-> EndgameCut, cfg |-> WithRules(6, 0, 3, 2)],
   [line |-> EndgameLost, cfg |-> WithRules(6, 0, 3, 2)],
   [line |-> EndgameTie, cfg |-> WithRules(6, 0, 3, 2)],
   [line |-> BotBlocked, cfg |-> WithRules(6, 0, 3, 2)],
   [line |-> SubSeq(BotBlocked, 1, 19), cfg |-> WithRules(6, 0, 3, 2)],
   [line |-> SubSeq(UserBlocked, 1, 19), cfg |-> WithRules(6, 0, 3, 1)],
   [line |-> <<>>, cfg |-> WithRules(1, 6, 3, 1)],
   [line |-> SubSeq(PreCapture, 1, 6), cfg |-> WithRules(1, 6, 3, 1)]}

\* positions of a game under the factory settings, with settings saved
\* from the sliders before the request is built: the save handler of the
\* settings section writes the live Settings object whatever the game does
SavedStarts ==
  {[line |-> Contact \o <<<<9, 21>>>>, cfg |-> WithRules(0, 6, 3, 1)],
   [line |-> PreCapture \o <<<<0, 12>>>>, cfg |-> WithRules(0, 0, 3, 2)]}

InitSearch ==
  \E s \in SearchStarts \cup SavedStarts :
    LET g == PlayLine(s.line, IF s \in SavedStarts THEN FactorySettings
                              ELSE s.cfg)
    IN /\ g.legal
       /\ cells = g.bs.cells
       /\ players = g.bs.players
       /\ settings = s.cfg
       /\ moveCount = 0
       /\ kinds = g.kinds
       /\ last = [op |-> "start", src |-> -1, tgt |-> -1,
                  mover |-> "undefined", pre |-> g.bs]
       /\ search = Idle
       /\ live = LiveIdle
       /\ dispatch = DispatchIdle
       /\ replayLog = LogEmpty
       /\ reader = ReaderIdle

NextSearch ==
  \/ Dispatch
  \/ RootApply
  \/ MinimaxEnter
  \/ MinimaxApply
  \/ MinimaxLoopEnd
  \/ MinimaxReturn
  \/ RootReturn
  \/ FindBestMoveReturn

SpecSearch == InitSearch /\ [][NextSearch]_vars

\* the worker runs findBestMove to its end: the handler is one synchronous
\* call and nothing else runs in the worker, so a step that can be taken is
\* taken
SpecSearchFair == SpecSearch /\ WF_vars(NextSearch)

-----------------------------------------------------------------------------
(* GameEventLoop.js and the main script: the live loop of the page.  Every *)
(* action is one run of the main thread between two awaits, or one step of *)
(* the AI worker.  A task is a call of playUserMove suspended at an await: *)
(*   "logUser"  loggerWriter.update after the user's move, no win          *)
(*   "worker"   dispatchWorker: the answer or the timer, whichever first   *)
(*   "css"      the two cssTransitionEnded before the bot's move           *)
(*   "logBot"   loggerWriter.update after the bot's move, no win           *)
(* Each task holds the worker it was given when the click was handled.     *)
(* live.clicks counts the moves the user has played in all games so far.   *)

MaxTasks == 2
MaxWorkers == 2
MaxClicks == 2
MaxAnswers == 2

\* a game one move before a win of the user, the bot two moves from a win;
\* the new game; the new game with no tower to secure for a win; a game
\* where the user can block the bot
LiveStarts ==
  {[line |-> <<>>, cfg |-> FactorySettings],
   [line |-> <<>>, cfg |-> WithRules(0, 6, 3, 1)],
   [line |-> PreCapture, cfg |-> FactorySettings],
   [line |-> SubSeq(BotBlocked, 1, 20), cfg |-> FactorySettings]}

InitLive ==
  \E s \in LiveStarts :
    LET g == PlayLine(s.line, s.cfg)
    IN /\ g.legal
       /\ cells = g.bs.cells
       /\ players = g.bs.players
       /\ settings = s.cfg
       /\ moveCount = 0
       /\ kinds = g.kinds
       /\ last = [op |-> "start", src |-> -1, tgt |-> -1,
                  mover |-> "undefined", pre |-> g.bs]
       /\ search = Idle
       /\ live = LiveIdle
       /\ dispatch = DispatchIdle
       /\ replayLog = LogEmpty
       /\ reader = ReaderIdle

Task(at, worker, move) == [at |-> at, worker |-> worker, move |-> move]

RemoveAt(s, i) == SubSeq(s, 1, i - 1) \o SubSeq(s, i + 1, Len(s))

\* the elements of a sequence that satisfy Keep, in order
RECURSIVE SelectFrom(_, _, _)
SelectFrom(s, i, keep) ==
  IF i > Len(s) THEN <<>>
  ELSE IF s[i] \in keep THEN <<s[i]>> \o SelectFrom(s, i + 1, keep)
  ELSE SelectFrom(s, i + 1, keep)

\* applyMoveAndTurn and checkWin on the live board, with the history
LiveApply(move) ==
  LET mover == CurrentPlayer(Board)
      bs == LiveMove(Board, move[1], move[2], settings)
  IN /\ cells' = bs.cells
     /\ players' = bs.players
     /\ moveCount' = moveCount + 1
     /\ kinds' = [kinds EXCEPT
                    ![mover] = Remember(@, MoveKind(move[1], move[2]))]
     /\ last' = [op |-> "move", src |-> move[1], tgt |-> move[2],
                 mover |-> mover, pre |-> Board]

\* the board click handler and playUserMove up to its first await: the
\* clicked target of the marked tower of the player whose turn it is
Click ==
  /\ ~live.disableBoardEvents
  /\ ~live.dialog
  /\ moveCount < MaxMoves
  /\ Len(live.tasks) < MaxTasks
  /\ live.clicks < MaxClicks
  /\ \E move \in SeqToSet(GetAllPossibleMoves(Board, CurrentPlayer(Board))) :
       /\ LiveApply(move)
       /\ LET mover == CurrentPlayer(Board)
              won == WinCondition(
                       ApplyMoveAndTurn(Board, move[1], move[2],
                                        settings.maxStackSize),
                       mover, settings)
          IN live' = [live EXCEPT
                        !.disableBoardEvents = TRUE,
                        !.clicks = @ + 1,
                        !.tasks = IF won THEN @
                                  ELSE Append(@, Task("logUser",
                                                      live.aiWorker, NoMove))]
  /\ UNCHANGED <<settings, search, dispatch, replayLog, reader>>

\* playUserMove after loggerWriter.update, and playBotMove up to its await:
\* the request carries a clone of the live board as it is now; a worker
\* that was terminated receives nothing
UserLogged ==
  \E i \in 1..Len(live.tasks) :
    /\ live.tasks[i].at = "logUser"
    /\ live' = [live EXCEPT
                  !.waitForWebWorker = TRUE,
                  !.tasks[i].at = "worker",
                  !.requests = IF live.tasks[i].worker = live.aiWorker
                                 THEN Append(@, [worker |-> live.aiWorker,
                                                 bs |-> Board])
                                 ELSE @]
    /\ UNCHANGED <<cells, players, settings, moveCount, last, kinds, search,
                 dispatch, replayLog, reader>>

\* the answers findBestMove can give on a board: one of its two errors
\* (response.error true, the text in response.message), or a move out of
\* getAllPossibleMoves; of these the model takes the first MaxAnswers and
\* every move that wins at once
Answers(bs, cfg) ==
  LET start == FindBestMoveStart(bs, cfg)
      moves == GetAllPossibleMoves(bs, BOT)
  IN IF start.phase = "threw"
       THEN {[error |-> start.error, move |-> NoMove]}
       ELSE {[error |-> "none", move |-> moves[k]] :
               k \in {j \in 1..Len(moves) :
                        \/ j <= MaxAnswers
                        \/ WinCondition(
                             ApplyMoveAndTurn(bs, moves[j][1], moves[j][2],
                                              cfg.maxStackSize),
                             BOT, cfg)}}

\* the AI worker handles its oldest request and posts the answer
WorkerAnswer ==
  /\ live.requests # <<>>
  /\ \E a \in Answers(Head(live.requests).bs, settings) :
       live' = [live EXCEPT
                  !.requests = Tail(@),
                  !.port = Append(@, [worker |-> Head(live.requests).worker,
                                      error |-> a.error,
                                      move |-> a.move])]
  /\ UNCHANGED <<cells, players, settings, moveCount, last, kinds, search,
                 dispatch, replayLog, reader>>

Listening(msg) ==
  {i \in 1..Len(live.tasks) :
     live.tasks[i].at = "worker" /\ live.tasks[i].worker = msg.worker}

\* dispatchWorker: the message event of a worker runs every message handler
\* still registered on it; each resolves its promise with this message.
\* playBotMove goes on to its cssTransitionEnded, or throws on an error
AnswerDelivered ==
  /\ live.port # <<>>
  /\ LET msg == Head(live.port)
         resumed == [i \in 1..Len(live.tasks) |->
                       IF i \in Listening(msg)
                         THEN Task(IF msg.error # "none" THEN "thrown"
                                   ELSE "css",
                                   live.tasks[i].worker, msg.move)
                         ELSE live.tasks[i]]
     IN live' = [live EXCEPT
                   !.port = Tail(@),
                   !.tasks = SelectFrom(resumed, 1,
                               {t \in SeqToSet(resumed) : t.at # "thrown"})]
  /\ UNCHANGED <<cells, players, settings, moveCount, last, kinds, search,
                 dispatch, replayLog, reader>>

\* reCreateAiWorker: terminate() discards what the worker has not handled
\* and what it has posted but the page has not received
ReCreateAiWorker(l) ==
  [l EXCEPT
     !.aiWorker = @ + 1,
     !.requests = SelectFrom(@, 1, {r \in SeqToSet(@) :
                                     r.worker # l.aiWorker}),
     !.port = SelectFrom(@, 1, {m \in SeqToSet(@) : m.worker # l.aiWorker})]

\* handleAiWorkerTimeout: the modal dialog is shown
HandleAiWorkerTimeout(l) == [l EXCEPT !.dialog = TRUE]

\* dispatchWorker: the timer of a request wins the race, and playBotMove
\* takes its timeout branch
Timeout ==
  /\ live.aiWorker < MaxWorkers
  /\ \E i \in 1..Len(live.tasks) :
       /\ live.tasks[i].at = "worker"
       /\ live' = HandleAiWorkerTimeout(ReCreateAiWorker(
                    [live EXCEPT !.tasks = RemoveAt(@, i)]))
  /\ UNCHANGED <<cells, players, settings, moveCount, last, kinds, search,
                 dispatch, replayLog, reader>>

\* a variant of playBotMove that goes on to enableBoardEvents after a win
AfterBotMoveAlwaysEnables(tasks, i, won) == [tasks EXCEPT ![i].at = "logBot"]

\* playBotMove after checkWin for the bot: on a win the call ends behind its
\* loggerWriter.update, else it goes on there to enableBoardEvents
AfterBotMove(tasks, i, won) ==
  IF won THEN RemoveAt(tasks, i) ELSE [tasks EXCEPT ![i].at = "logBot"]

\* playBotMove after the two cssTransitionEnded: the move of the answer is
\* applied to the live board as it is now; playMove throws on a pair of
\* cells it refuses and the call ends there
TransitionsEnded ==
  \E i \in 1..Len(live.tasks) :
    /\ live.tasks[i].at = "css"
    /\ LET move == live.tasks[i].move
           mover == CurrentPlayer(Board)
       IN IF StackTowersError(Board, move[1], move[2]) # "none"
            THEN /\ live' = [live EXCEPT !.tasks = RemoveAt(@, i)]
                 /\ UNCHANGED <<cells, players, moveCount, last, kinds>>
            ELSE /\ LiveApply(move)
                 /\ live' = [live EXCEPT
                      !.waitForWebWorker = FALSE,
                      !.tasks =
                        AfterBotMove(@, i,
                          WinCondition(
                            ApplyMoveAndTurn(Board, move[1], move[2],
                                             settings.maxStackSize),
                            mover, settings))]
    /\ UNCHANGED <<settings, search, dispatch, replayLog, reader>>

\* playBotMove after loggerWriter.update, no win: enableBoardEvents
BotLogged ==
  \E i \in 1..Len(live.tasks) :
    /\ live.tasks[i].at = "logBot"
    /\ live' = [live EXCEPT
                  !.disableBoardEvents = FALSE,
                  !.tasks = RemoveAt(@, i)]
    /\ UNCHANGED <<cells, players, settings, moveCount, last, kinds, search,
                 dispatch, replayLog, reader>>

\* resetGame on the live board: the position of createBoard, board events
\* enabled, waitForWebWorker cleared
LiveReset ==
  /\ cells' = CreateBoard.cells
  /\ players' = [bot |-> ResetPlayer(players[BOT], BOT),
                  user |-> ResetPlayer(players[USER], USER)]
  /\ moveCount' = 0
  /\ kinds' = [bot |-> <<>>, user |-> <<>>]
  /\ last' = [op |-> "reset", src |-> -1, tgt |-> -1, mover |-> "undefined",
              pre |-> [cells |-> cells', players |-> players']]
  /\ UNCHANGED <<settings, search, dispatch, replayLog, reader>>

\* the close handler of the timeout dialog: resetGame
CloseDialog ==
  /\ live.dialog
  /\ LiveReset
  /\ live' = [live EXCEPT !.dialog = FALSE, !.disableBoardEvents = FALSE,
                          !.waitForWebWorker = FALSE]

\* the navbar click handler on "navbarRestart": resetGame, unless
\* waitForWebWorker is set; a modal dialog takes the click
NavbarRestart ==
  /\ ~live.waitForWebWorker
  /\ ~live.dialog
  /\ LiveReset
  /\ live' = [live EXCEPT !.disableBoardEvents = FALSE,
                          !.waitForWebWorker = FALSE]

NextLive ==
  \/ Click
  \/ UserLogged
  \/ WorkerAnswer
  \/ AnswerDelivered
  \/ Timeout
  \/ TransitionsEnded
  \/ BotLogged
  \/ CloseDialog
  \/ NavbarRestart

SpecLive == InitLive /\ [][NextLive]_vars

-----------------------------------------------------------------------------
(* Properties of the rules, checked over the game of legal play *)

Moved == last.op = "move"
Pre == last.pre
PreSrc == Pre.cells[last.src]
PreTgt == Pre.cells[last.tgt]
MaxStack == settings.maxStackSize

SameCellFields(a, b) ==
  \A id \in CellIds :
    /\ a.cells[id].svgLayout = b.cells[id].svgLayout
    /\ a.cells[id].direction = b.cells[id].direction
    /\ a.cells[id].dot = b.cells[id].dot

SameMoveFields(a, b) ==
  \A pid \in PLAYER_ID :
    /\ a.players[pid].turn = b.players[pid].turn
    /\ a.players[pid].lastHorizontal = b.players[pid].lastHorizontal
    /\ a.players[pid].safetyTower = b.players[pid].safetyTower
    /\ a.players[pid].vault = b.players[pid].vault

\* C1: after any generated move, undoMove with the snapshot taken right
\* before the move gives back the stack, direction and reversed flag of all
\* 36 cells and turn, lastHorizontal, safetyTower and vault of both players.
C1_UndoRoundTrip ==
  Moved =>
    LET undone == UndoMove(Board, LoggedMove(Pre, last.src, last.tgt))
    IN SameCellFields(undone, Pre) /\ SameMoveFields(undone, Pre)

\* a move that changed both cells, the vault, the lock and the turn
C1_Witness ==
  /\ Moved
  /\ players[last.mover].vault # Pre.players[last.mover].vault
  /\ players[last.mover].lastHorizontal # Pre.players[last.mover].lastHorizontal
  /\ cells[last.tgt] # PreTgt

\* C5: no target returned by getLocalMoves or getAllPossibleMoves has the
\* top owner of its source: targets are empty or topped by the opponent.
C5_NoOwnTarget ==
  /\ \A src \in CellIds : \A pid \in PLAYER_ID :
       Len(cells[src].svgLayout) > 0 =>
         \A tgt \in SeqToSet(GetLocalMoves(Board, src, pid)) :
           AtLast(cells[tgt].svgLayout) # AtLast(cells[src].svgLayout)
  /\ \A pid \in PLAYER_ID :
       \A move \in SeqToSet(GetAllPossibleMoves(Board, pid)) :
         /\ AtLast(cells[move[1]].svgLayout) = pid
         /\ AtLast(cells[move[2]].svgLayout) \in {"undefined", Opponent(pid)}

\* a tower with an own neighbour (dropped) and an opponent neighbour (kept)
C5_Witness ==
  \E src \in CellIds : \E a, b \in 1..6 :
    LET pid == AtLast(cells[src].svgLayout)
        cands == Candidates(Board, src, pid)
    IN /\ pid \in PLAYER_ID
       /\ Len(cands) = 6
       /\ cands[a] # -1 /\ cands[b] # -1
       /\ AtLast(cells[cands[a]].svgLayout) = pid
       /\ AtLast(cells[cands[b]].svgLayout) = Opponent(pid)
       /\ cands[b] \in SeqToSet(GetLocalMoves(Board, src, pid))

\* the candidate list as the rules state it: forward one and two rows (no
\* vertical wraparound), then, without the lock, one and two columns to the
\* left and to the right, modulo 6
StatedCandidates(src, pid) ==
  LET row == Row(src)
      col == Column(src)
      d == cells[src].direction
      forward == <<<<row + d, col>>, <<row + 2 * d, col>>>>
      sideward == <<<<row, (col - 1) % 6>>, <<row, (col - 2) % 6>>,
                    <<row, (col + 1) % 6>>, <<row, (col + 2) % 6>>>>
  IN IF players[pid].lastHorizontal THEN forward ELSE forward \o sideward

StatedKeep(src, rc) ==
  /\ rc[1] >= 0 /\ rc[1] <= 5
  /\ AtLast(cells[rc[1] * 6 + rc[2]].svgLayout) # AtLast(cells[src].svgLayout)

RECURSIVE StatedTargets(_, _, _)
StatedTargets(src, cands, i) ==
  IF i > Len(cands) THEN <<>>
  ELSE (IF StatedKeep(src, cands[i])
          THEN <<cands[i][1] * 6 + cands[i][2]>> ELSE <<>>)
       \o StatedTargets(src, cands, i + 1)

RECURSIVE StatedMoves(_, _)
StatedMoves(pid, id) ==
  IF id > 35 THEN <<>>
  ELSE (IF AtLast(cells[id].svgLayout) = pid
          THEN LET tgts == StatedTargets(id, StatedCandidates(id, pid), 1)
               IN [i \in 1..Len(tgts) |-> <<id, tgts[i]>>]
          ELSE <<>>)
       \o StatedMoves(pid, id + 1)

NoDuplicates(seq) ==
  \A i, j \in 1..Len(seq) : seq[i] = seq[j] => i = j

\* C6: getLocalMoves checks forward one, forward two, then (without the
\* lock) left one, left two, right one, right two with the column modulo 6,
\* keeps a candidate iff it is on the board and its top owner differs, and
\* returns no cell twice; getAllPossibleMoves concatenates these lists over
\* the cells topped by the player in cell-id order.
C6_MoveOrder ==
  \A pid \in PLAYER_ID :
    /\ \A src \in CellIds :
         AtLast(cells[src].svgLayout) = pid =>
           /\ GetLocalMoves(Board, src, pid)
                = StatedTargets(src, StatedCandidates(src, pid), 1)
           /\ NoDuplicates(GetLocalMoves(Board, src, pid))
    /\ GetAllPossibleMoves(Board, pid) = StatedMoves(pid, 0)

\* the player to move has wrapping moves to the left and to the right, and
\* a tower whose second forward candidate is off the board
C6_Witness ==
  LET pid == CurrentPlayer(Board)
      moves == SeqToSet(GetAllPossibleMoves(Board, pid))
  IN /\ \E m \in moves : Column(m[1]) = 0 /\ Column(m[2]) = 4
     /\ \E m \in moves : Column(m[1]) = 5 /\ Column(m[2]) = 1
     /\ \E m \in moves :
          LET r == Row(m[1]) + 2 * cells[m[1]].direction
          IN (r < 0 \/ r > 5) /\ Row(m[2]) # Row(m[1])

LastKind(pid) ==
  IF kinds[pid] = <<>> THEN "none" ELSE kinds[pid][Len(kinds[pid])]

\* the targets of a player's towers in the same row, lock or no lock
LateralTargets(pid) ==
  {<<src, tgt>> \in CellIds \X CellIds :
     /\ AtLast(cells[src].svgLayout) = pid
     /\ Row(tgt) = Row(src)
     /\ (Column(tgt) - Column(src)) % 6 \in {1, 2, 4, 5}
     /\ AtLast(cells[tgt].svgLayout) # pid}

\* C7: no player makes two consecutive own lateral moves; after an own
\* lateral move the player's move list holds vertical moves only, whatever
\* the opponent did in between, and after the next own (vertical) move the
\* lateral targets are offered again.
C7_LateralLock ==
  \A pid \in PLAYER_ID :
    LET moves == SeqToSet(GetAllPossibleMoves(Board, pid))
    IN /\ kinds[pid] # <<"lateral", "lateral">>
       /\ LastKind(pid) = "lateral" =>
            /\ players[pid].lastHorizontal = TRUE
            /\ \A m \in moves : Row(m[1]) # Row(m[2])
       /\ LastKind(pid) # "lateral" =>
            /\ players[pid].lastHorizontal = FALSE
            /\ LateralTargets(pid) \subseteq moves

\* the user moved sideward, then forward, the bot answered, and sideward
\* moves are offered to the user again
C7_Witness ==
  /\ kinds[USER] = <<"lateral", "vertical">>
  /\ CurrentPlayer(Board) = USER
  /\ moveCount = 2
  /\ LateralTargets(USER) # {}

\* the rows of the safety-zone round trip as the rules state them
StatedFarEdge(pid) == IF pid = USER THEN 5 ELSE 0
StatedOriginEdge(pid) == IF pid = USER THEN 0 ELSE 5
StatedReverse == ~PreSrc.dot /\ Row(last.tgt) = StatedFarEdge(last.mover)
StatedCapture == PreSrc.dot /\ Row(last.tgt) = StatedOriginEdge(last.mover)

TopOf(layout, n) ==
  SubSeq(layout, Max(1, Len(layout) - n + 1), Len(layout))
BottomOf(layout, n) == SubSeq(layout, 1, Min(n, Len(layout)))
Count(layout, pid) == Cardinality({i \in 1..Len(layout) : layout[i] = pid})
Combined == PreTgt.svgLayout \o PreSrc.svgLayout
Removed == BottomOf(Combined, Max(0, Len(Combined) - MaxStack))

\* C8: stacking S onto a non-empty T of the other owner leaves the top
\* maxStackSize stones of T followed by S (bottom stones go first), topped
\* by the mover, unless the move is a safety capture; and no stack of a
\* reachable board is higher than maxStackSize.
C8_StackCap ==
  /\ \A id \in CellIds : Len(cells[id].svgLayout) <= MaxStack
  /\ (Moved /\ PreTgt.svgLayout # <<>> /\ ~StatedCapture) =>
       /\ cells[last.tgt].svgLayout = TopOf(Combined, MaxStack)
       /\ AtLast(cells[last.tgt].svgLayout) = last.mover
       /\ AtLast(PreTgt.svgLayout) = Opponent(last.mover)

\* a tower stacked onto a full tower of three: the bottom stone leaves and
\* stones of the target stay under the mover's
C8_Witness ==
  /\ Moved /\ ~StatedCapture
  /\ MaxStack = 3
  /\ Len(PreTgt.svgLayout) = 3
  /\ Len(PreSrc.svgLayout) <= 2
  /\ Len(Removed) >= 1
  /\ cells[last.tgt].svgLayout
       = SubSeq(PreTgt.svgLayout, Len(PreSrc.svgLayout) + 1, 3) \o PreSrc.svgLayout

\* C9: the stones a move removes are the bottom max(0, |T| + |S| - m)
\* stones of T followed by S; each adds one to the mover's vault.self when
\* it is the mover's own and to the mover's vault.opponent otherwise, both
\* saturating at 6; a move onto an empty cell changes no vault, and the
\* opponent's vault never changes.
C9_VaultCredit ==
  Moved =>
    LET before == Pre.players[last.mover].vault
        after == players[last.mover].vault
        own == Count(Removed, last.mover)
        other == Count(Removed, Opponent(last.mover))
    IN /\ own + other = Max(0, Len(PreTgt.svgLayout) + Len(PreSrc.svgLayout) - MaxStack)
       /\ PreTgt.svgLayout # <<>> =>
            /\ after.self = Min(6, before.self + own)
            /\ after.opponent = Min(6, before.opponent + other)
       /\ PreTgt.svgLayout = <<>> => after = before
       /\ players[Opponent(last.mover)].vault
            = Pre.players[Opponent(last.mover)].vault

\* one move removes an own stone and an opponent's stone
C9_Witness ==
  /\ Moved
  /\ Count(Removed, last.mover) >= 1
  /\ Count(Removed, Opponent(last.mover)) >= 1
  /\ players[last.mover].vault.self = Pre.players[last.mover].vault.self + 1

\* a counter at 6 stays at 6 when another stone is removed
C9_WitnessSaturated ==
  /\ Moved
  /\ \/ Pre.players[last.mover].vault.opponent = 6
          /\ Count(Removed, Opponent(last.mover)) >= 1
     \/ Pre.players[last.mover].vault.self = 6
          /\ Count(Removed, last.mover) >= 1

\* C10: a tower that is not reversed and lands on its far edge row (5 for
\* the user, 0 for the bot) becomes reversed with its direction negated and
\* keeps its stack; a reversed tower that lands on its origin edge row (0
\* for the user, 5 for the bot) empties the target and adds one to the
\* mover's safetyTower, saturating at 6; no other move changes a reversed
\* flag or a safetyTower.
C10_SafetyRoundTrip ==
  Moved =>
    LET tgt == cells[last.tgt]
        before == Pre.players[last.mover].safetyTower
        after == players[last.mover].safetyTower
    IN /\ StatedReverse =>
            /\ tgt.dot = TRUE
            /\ tgt.direction = -PreSrc.direction
            /\ tgt.svgLayout = TopOf(Combined, MaxStack)
            /\ after = before
       /\ StatedCapture =>
            /\ tgt = EmptyCell
            /\ after = Min(6, before + 1)
       /\ (~StatedReverse /\ ~StatedCapture) =>
            /\ tgt.dot = PreSrc.dot
            /\ tgt.direction = PreSrc.direction
            /\ after = before
       /\ cells[last.src] = EmptyCell
       /\ \A id \in CellIds \ {last.src, last.tgt} : cells[id] = Pre.cells[id]
       /\ players[Opponent(last.mover)].safetyTower
            = Pre.players[Opponent(last.mover)].safetyTower

\* a reversed tower came home onto an occupied origin cell
C10_Witness ==
  /\ Moved /\ StatedCapture
  /\ PreTgt.svgLayout # <<>>
  /\ players[last.mover].safetyTower = Pre.players[last.mover].safetyTower + 1

\* a tower reached its far edge and turned round
C10_WitnessReverse ==
  /\ Moved /\ StatedReverse
  /\ cells[last.tgt].dot /\ cells[last.tgt].direction = -PreSrc.direction

\* the mover's safety capture has fired: the target is empty and the
\* mover's safetyTower is one higher (saturating at 6)
CaptureFired ==
  /\ cells[last.tgt].svgLayout = <<>>
  /\ cells[last.tgt].direction = 0
  /\ cells[last.tgt].dot = FALSE
  /\ players[last.mover].safetyTower
       = Min(6, Pre.players[last.mover].safetyTower + 1)

\* no capture: the target holds a tower and the safetyTower is as before
NoCaptureFired ==
  /\ cells[last.tgt].svgLayout # <<>>
  /\ players[last.mover].safetyTower = Pre.players[last.mover].safetyTower

BotMovedReversed ==
  Moved /\ last.mover = BOT /\ AtLast(PreSrc.svgLayout) = BOT /\ PreSrc.dot

\* C11 as stated: the bot's capture edge is row 0; a reversed bot-topped
\* tower that moves to a target in row 0 is captured (target cleared, bot
\* safetyTower + 1) and a target in any other row captures no bot tower.
C11_BotCaptureRowZero ==
  BotMovedReversed =>
    IF Row(last.tgt) = 0 THEN CaptureFired ELSE NoCaptureFired

\* C11: the bot's capture edge is row 5, the row its towers start from: a
\* reversed bot-topped tower that moves to a target in row 5 is captured
\* (target cleared, bot safetyTower + 1, saturating at 6); a bot move to
\* any other row, row 0 included, and a move of a bot tower that is not
\* reversed capture nothing.
C11_BotCaptureRowFive ==
  (Moved /\ last.mover = BOT) =>
    IF PreSrc.dot /\ Row(last.tgt) = 5 THEN CaptureFired ELSE NoCaptureFired

\* a reversed bot tower came home to row 5 and was captured
C11_Witness ==
  /\ BotMovedReversed /\ Row(last.tgt) = 5
  /\ CaptureFired
  /\ players[BOT].safetyTower = Pre.players[BOT].safetyTower + 1

\* a reversed bot tower moved along row 0 and stayed on the board
C11_WitnessRowZero ==
  BotMovedReversed /\ Row(last.tgt) = 0 /\ NoCaptureFired

\* C12: after every move playMove has made, the source cell is cleared
\* (empty stack, direction 0, reversed false) whatever happened to the
\* target; when the target was empty and neither edge rule fires, the
\* target holds the source's former stack, direction and reversed flag.
C12_SourceClearedTargetInherits ==
  Moved =>
    /\ cells[last.src].svgLayout = <<>>
    /\ cells[last.src].direction = 0
    /\ cells[last.src].dot = FALSE
    /\ (PreTgt.svgLayout = <<>> /\ ~StatedReverse /\ ~StatedCapture) =>
         /\ cells[last.tgt].svgLayout = PreSrc.svgLayout
         /\ cells[last.tgt].direction = PreSrc.direction
         /\ cells[last.tgt].dot = PreSrc.dot

\* a reversed tower of two or more stones moved onto an empty cell, away
\* from the edge rows
C12_Witness ==
  /\ Moved /\ PreTgt.svgLayout = <<>> /\ ~StatedReverse /\ ~StatedCapture
  /\ Len(PreSrc.svgLayout) >= 2 /\ PreSrc.dot
  /\ cells[last.tgt].svgLayout = PreSrc.svgLayout
  /\ cells[last.tgt].dot
  /\ cells[last.src].svgLayout = <<>>

\* the source was cleared while the target took over an edge rule's result
C12_WitnessEdge ==
  /\ Moved /\ (StatedReverse \/ StatedCapture)
  /\ cells[last.src].svgLayout = <<>> /\ cells[last.src].direction = 0

\* the number of towers a player tops
TowerCount(bs, pid) ==
  Cardinality({id \in CellIds : bs.cells[id].svgLayout # <<>>
                 /\ bs.cells[id].svgLayout[Len(bs.cells[id].svgLayout)] = pid})

StatedVaultWin(bs, pid) ==
  settings.materialOpponent > 0
  /\ bs.players[pid].vault.opponent >= settings.materialOpponent

StatedSafetyWin(bs, pid) == bs.players[pid].safetyTower >= settings.safetyZone

StatedZeroTowerWin(bs, pid) ==
  /\ bs.players[pid].turn = FALSE
  /\ (TowerCount(bs, Opponent(pid)) = 0 \/ TowerCount(bs, pid) = 0)

StatedWin(bs, pid) ==
  StatedVaultWin(bs, pid) \/ StatedSafetyWin(bs, pid)
    \/ StatedZeroTowerWin(bs, pid)

\* C13: on every board of the game and for either player, checkWin returns
\* true exactly when (materialOpponent > 0 and vault.opponent >=
\* materialOpponent) or safetyTower >= safetyZone or (the player's turn is
\* false and one of the two players tops no cell); then it sets the
\* player's winner flag, otherwise it leaves the board as it was; it never
\* touches the other player's flag and never clears a flag; in the live
\* game the mover's flag after a move is that condition.
C13_CheckWin ==
  /\ \A pid \in PLAYER_ID :
       LET after == CheckWin(Board, pid, settings)
       IN /\ WinCondition(Board, pid, settings) = StatedWin(Board, pid)
          /\ IF StatedWin(Board, pid)
               THEN after = [Board EXCEPT !.players[pid].winner = TRUE]
               ELSE after = Board
          /\ after.players[Opponent(pid)] = players[Opponent(pid)]
          /\ players[pid].winner => after.players[pid].winner
          /\ (players[pid].turn /\ ~StatedVaultWin(Board, pid)
                /\ ~StatedSafetyWin(Board, pid)) =>
               ~WinCondition(Board, pid, settings)
  /\ Moved =>
       /\ players[last.mover].winner = StatedWin(Board, last.mover)
       /\ players[Opponent(last.mover)].winner = FALSE

\* the user took the bot's last tower and won; the bot, whose turn it is,
\* tops no cell and checkWin for the bot is false
C13_Witness ==
  /\ Moved /\ last.mover = USER /\ players[USER].winner
  /\ TowerCount(Board, BOT) = 0
  /\ ~StatedVaultWin(Board, USER) /\ ~StatedSafetyWin(Board, USER)
  /\ players[BOT].turn
  /\ CheckWin(Board, BOT, settings) = Board

\* a win by the opponent stones in the vault
C13_WitnessVault ==
  /\ Moved /\ players[last.mover].winner
  /\ StatedVaultWin(Board, last.mover)
  /\ ~StatedSafetyWin(Board, last.mover)
  /\ ~StatedZeroTowerWin(Board, last.mover)

\* a win by the towers brought home
C13_WitnessSafety ==
  /\ Moved /\ players[last.mover].winner
  /\ StatedSafetyWin(Board, last.mover)
  /\ ~StatedVaultWin(Board, last.mover)
  /\ ~StatedZeroTowerWin(Board, last.mover)

\* the rows the claim allows for a reversed tower: 0..4 bot, 1..5 user
StatedReversedRows(pid) == IF pid = BOT THEN 0..4 ELSE 1..5

ReversedInStatedRows(bs) ==
  \A id \in CellIds :
    (bs.cells[id].dot /\ bs.cells[id].svgLayout # <<>>) =>
      Row(id) \in StatedReversedRows(
                    bs.cells[id].svgLayout[Len(bs.cells[id].svgLayout)])

\* the distance to safety of every reversed tower is in 1..5
DistanceInRange(bs) ==
  \A pid \in PLAYER_ID : \A id \in TowersOf(bs, pid) :
    bs.cells[id].dot => RowDistance(id, pid) \in 1..5

\* C15: on every board reached by generated moves, on the game board and
\* on the board of the search, every reversed bot-topped tower is in rows
\* 0..4 and every reversed user-topped tower in rows 1..5, the distance to
\* safety is in 1..5, and the evaluator does not throw "Evaluation error
\* for invalid material position".
C15_NoEvaluationError ==
  /\ \A bs \in {Board, search.bs} :
       /\ ReversedInStatedRows(bs)
       /\ DistanceInRange(bs)
       /\ ~EvaluationThrows(bs, settings)
       /\ ~GetTerminalNodeState(bs, settings.depth, settings).threw
  /\ search.error # "Evaluation error for invalid material position"

\* a reversed tower one row from home, and a reversed tower that has just
\* left the board over its origin row
C15_Witness ==
  /\ Moved /\ StatedCapture
  /\ \E pid \in PLAYER_ID : \E id \in TowersOf(Board, pid) :
       cells[id].dot /\ RowDistance(id, pid) = 1
  /\ settings.safetyZone > 0

\* a reversed tower on its far edge row, five rows from home
C15_WitnessFarEdge ==
  \E pid \in PLAYER_ID : \E id \in TowersOf(Board, pid) :
    cells[id].dot /\ RowDistance(id, pid) = 5

\* direction is 0 exactly on the empty cells, and a reversed cell holds a
\* tower
CellInvariant(bs) ==
  \A id \in CellIds :
    /\ (bs.cells[id].direction = 0) = (Len(bs.cells[id].svgLayout) = 0)
    /\ bs.cells[id].dot => Len(bs.cells[id].svgLayout) > 0

\* the board undoMove gives back for the last move of the game
LastMoveUndone == UndoMove(Board, LoggedMove(Pre, last.src, last.tgt))

\* C16: on every board reached from the initial position by moves, by
\* resetGame and by undoMove, a cell's direction is 0 exactly when its
\* stack is empty, and a cell whose reversed flag is true holds a tower.
C16_CellInvariant ==
  /\ CellInvariant(Board)
  /\ CellInvariant(search.bs)
  /\ Moved => CellInvariant(LastMoveUndone)

\* a reversed tower came home onto an occupied cell: the target is empty
\* with direction 0, and undoMove puts the two towers back
C16_Witness ==
  /\ Moved /\ StatedCapture /\ PreTgt.svgLayout # <<>>
  /\ cells[last.tgt].direction = 0 /\ cells[last.tgt].svgLayout = <<>>
  /\ LastMoveUndone.cells[last.src].dot
  /\ LastMoveUndone.cells[last.src].direction # 0
  /\ LastMoveUndone.cells[last.tgt].svgLayout # <<>>

\* resetGame after a move that reversed or captured a tower
C16_WitnessReset ==
  /\ last.op = "reset"
  /\ \A id \in CellIds : ~cells[id].dot
  /\ \E id \in CellIds : cells[id].direction = 0

ExactlyOneTurn(bs) ==
  Cardinality({pid \in PLAYER_ID : bs.players[pid].turn = TRUE}) = 1

\* the board with both turn flags negated and nothing else changed
BothTurnsFlipped(bs) ==
  [cells |-> bs.cells,
   players |-> [bot |-> [bs.players[BOT] EXCEPT !.turn = ~bs.players[BOT].turn],
                user |-> [bs.players[USER] EXCEPT
                            !.turn = ~bs.players[USER].turn]]]

\* C17: on every board reached from the initial position by
\* applyMoveAndTurn, resetGame and undoMove exactly one player has turn =
\* true; switchPlayer negates both flags and changes nothing else, and a
\* move hands the turn from the mover to the other player.
C17_TurnInvariant ==
  /\ ExactlyOneTurn(Board)
  /\ ExactlyOneTurn(search.bs)
  /\ SwitchPlayer(Board) = BothTurnsFlipped(Board)
  /\ ExactlyOneTurn(SwitchPlayer(Board))
  /\ Moved =>
       /\ Pre.players[last.mover].turn = TRUE
       /\ players[last.mover].turn = FALSE
       /\ players[Opponent(last.mover)].turn = TRUE
       /\ ExactlyOneTurn(LastMoveUndone)
       /\ LastMoveUndone.players[last.mover].turn = TRUE
       /\ SwitchPlayer(PlayMove(Pre, last.src, last.tgt, MaxStack)).players
            = BothTurnsFlipped(PlayMove(Pre, last.src, last.tgt,
                                        MaxStack)).players
  /\ last.op = "reset" => (players[USER].turn /\ ~players[BOT].turn)

\* the bot has moved: the turn is the user's, and undoMove gives it back
\* to the bot
C17_Witness ==
  /\ Moved /\ last.mover = BOT
  /\ players[USER].turn /\ ~players[BOT].turn
  /\ LastMoveUndone.players[BOT].turn
  /\ ~LastMoveUndone.players[USER].turn

\* resetGame with the bot to move gives the turn to the user
C17_WitnessReset ==
  /\ last.op = "reset" /\ moveCount = 0
  /\ players[USER].turn /\ ~players[BOT].turn

CountersInRange(bs) ==
  \A pid \in PLAYER_ID :
    /\ bs.players[pid].safetyTower \in 0..6
    /\ bs.players[pid].vault.self \in 0..6
    /\ bs.players[pid].vault.opponent \in 0..6

SameCounters(a, b) ==
  \A pid \in PLAYER_ID :
    /\ a.players[pid].safetyTower = b.players[pid].safetyTower
    /\ a.players[pid].vault = b.players[pid].vault

\* C18: on every reachable board each player's safetyTower, vault.self and
\* vault.opponent are integers in 0..6; a counter that is 6 before a move
\* that adds to it is 6 after the move (the setters take the minimum with
\* 6); undoMove gives the counters their values of before the move, in
\* 0..6 again.
C18_CounterCaps ==
  /\ CountersInRange(Board)
  /\ CountersInRange(search.bs)
  /\ SetSafetyTower(6 + 1) = 6
  /\ SetVault([self |-> 6 + 1, opponent |-> 6 + 1])
       = [self |-> 6, opponent |-> 6]
  /\ Moved =>
       LET before == Pre.players[last.mover]
           after == players[last.mover]
       IN /\ (before.vault.self = 6 /\ Count(Removed, last.mover) >= 1
                /\ PreTgt.svgLayout # <<>>) => after.vault.self = 6
          /\ (before.vault.opponent = 6 /\ PreTgt.svgLayout # <<>>
                /\ Count(Removed, Opponent(last.mover)) >= 1) =>
               after.vault.opponent = 6
          /\ (before.safetyTower = 6 /\ StatedCapture) =>
               after.safetyTower = 6
          /\ CountersInRange(LastMoveUndone)
          /\ SameCounters(LastMoveUndone, Pre)

\* a vault counter at 6 took one more stone and stayed at 6, and undoMove
\* gives 6 back
C18_Witness ==
  /\ Moved /\ PreTgt.svgLayout # <<>>
  /\ \/ /\ Pre.players[last.mover].vault.self = 6
        /\ Count(Removed, last.mover) >= 1
        /\ players[last.mover].vault.self = 6
        /\ LastMoveUndone.players[last.mover].vault.self = 6
     \/ /\ Pre.players[last.mover].vault.opponent = 6
        /\ Count(Removed, Opponent(last.mover)) >= 1
        /\ players[last.mover].vault.opponent = 6
        /\ LastMoveUndone.players[last.mover].vault.opponent = 6

\* undoMove takes a counter back from 6 to 5
C18_WitnessUndo ==
  /\ Moved
  /\ players[last.mover].vault.opponent = 6
  /\ LastMoveUndone.players[last.mover].vault.opponent = 5

\* the pairs of cells the claim calls invalid: an empty source, or a
\* target that holds a tower with the top owner of the source's tower
StatedInvalid(bs, src, tgt) ==
  \/ Len(bs.cells[src].svgLayout) = 0
  \/ /\ Len(bs.cells[tgt].svgLayout) > 0
     /\ bs.cells[tgt].svgLayout[Len(bs.cells[tgt].svgLayout)]
          = bs.cells[src].svgLayout[Len(bs.cells[src].svgLayout)]

Rejected == last.op = "rejected"

\* C20: applyMoveAndTurn with an empty source cell, or with a non-empty
\* target whose top owner is the top owner of the source, throws and
\* leaves everything as it was: both cells (and all others), both players'
\* vault, safetyTower and lastHorizontal, and the turn flags; with any
\* other pair stackTowers does not throw.
C20_InvalidMoveNoEffect ==
  /\ \A src \in CellIds : \A tgt \in InLine(src) :
       IF StatedInvalid(Board, src, tgt)
         THEN /\ StackTowersError(Board, src, tgt) # "none"
              /\ ApplyMoveAndTurn(Board, src, tgt, MaxStack) = Board
         ELSE StackTowersError(Board, src, tgt) = "none"
  /\ Rejected =>
       /\ StatedInvalid(Pre, last.src, last.tgt)
       /\ cells = Pre.cells
       /\ players = Pre.players
       /\ CurrentPlayer(Board) = last.mover

\* a tower was moved onto a tower of the same owner and nothing changed
C20_Witness ==
  /\ Rejected
  /\ PreSrc.svgLayout # <<>> /\ PreTgt.svgLayout # <<>>
  /\ Len(PreSrc.svgLayout) + Len(PreTgt.svgLayout) > MaxStack
  /\ AtLast(PreSrc.svgLayout) = AtLast(PreTgt.svgLayout)
  /\ StackTowersError(Pre, last.src, last.tgt)
       = "cannot stack towers of the same player"
  /\ Board = Pre

\* a move from an empty cell onto a tower threw and nothing changed
C20_WitnessEmptySource ==
  /\ Rejected
  /\ PreSrc.svgLayout = <<>> /\ PreTgt.svgLayout # <<>>
  /\ StackTowersError(Pre, last.src, last.tgt) = "source cell has no tower"
  /\ Board = Pre

\* C21: on every board reached from the initial position by legal moves
\* on which checkWin is false for both players, the player to move has a
\* legal move: getAllPossibleMoves is not empty, also while that player's
\* lastHorizontal is set.
C21_MoverHasLegalMove ==
  (\A pid \in PLAYER_ID : ~WinCondition(Board, pid, settings)) =>
    GetAllPossibleMoves(Board, CurrentPlayer(Board)) # <<>>

\* after a move of the user the bot is to move, nobody has won, the bot
\* tops three cells and none of its towers has a target
C21_BotStuck ==
  /\ Moved /\ last.mover = USER
  /\ \A pid \in PLAYER_ID : ~WinCondition(Board, pid, settings)
  /\ ~GameOver(Board)
  /\ players[BOT].turn /\ players[BOT].lastHorizontal
  /\ TowerCount(Board, BOT) = 3
  /\ GetAllPossibleMoves(Board, BOT) = <<>>

\* the direction a tower has by its top stone and its reversed flag
StatedDirection(cell) ==
  IF cell.svgLayout[Len(cell.svgLayout)] = USER
    THEN (IF cell.dot THEN -1 ELSE 1)
    ELSE (IF cell.dot THEN 1 ELSE -1)

DirectionInvariant(bs) ==
  \A id \in CellIds :
    bs.cells[id].svgLayout # <<>> =>
      bs.cells[id].direction = StatedDirection(bs.cells[id])

\* C28: on every board reached from the initial position, a tower topped
\* by the user has direction +1 if it is not reversed and -1 if it is, and
\* a tower topped by the bot has direction -1 if it is not reversed and +1
\* if it is; also right after a tower was conquered.
C28_DirectionByOwner ==
  /\ DirectionInvariant(Board)
  /\ DirectionInvariant(search.bs)
  /\ Moved => DirectionInvariant(LastMoveUndone)

\* a reversed tower has just conquered a tower of the opponent that was not
\* reversed: the tower on the target moves the way of its new owner
C28_Witness ==
  /\ Moved
  /\ PreTgt.svgLayout # <<>> /\ ~PreTgt.dot
  /\ PreSrc.dot
  /\ cells[last.tgt].svgLayout # <<>>
  /\ cells[last.tgt].svgLayout[Len(cells[last.tgt].svgLayout)] = last.mover
  /\ cells[last.tgt].dot
  /\ cells[last.tgt].direction = PreTgt.direction
  /\ cells[last.tgt].direction = StatedDirection(cells[last.tgt])

-----------------------------------------------------------------------------
(* Properties of the search, checked over the steps of the AI worker *)

SameBoard(a, b) ==
  /\ SameCellFields(a, b)
  /\ SameMoveFields(a, b)
  /\ \A pid \in PLAYER_ID : a.players[pid].winner = b.players[pid].winner

\* C2: in findBestMove and in every nested minimax call each applied move
\* is undone before the next sibling is tried, so that between two passes
\* of a for loop the board is the board at entry of the call in every cell
\* field and every player field, the winner flag included; and the board
\* handed to findBestMove is the same when findBestMove returns.
C2_SearchUndoExact ==
  /\ (Searching /\ Top.state = "loop") => SameBoard(search.bs, Top.entry)
  /\ search.phase = "done" => SameBoard(search.bs, search.input)

\* what the search does restore between siblings and on return: every
\* field but the winner flags
C2_ExactButWinner ==
  /\ (Searching /\ Top.state = "loop") =>
       /\ SameCellFields(search.bs, Top.entry)
       /\ SameMoveFields(search.bs, Top.entry)
  /\ search.phase = "done" =>
       /\ SameCellFields(search.bs, search.input)
       /\ SameMoveFields(search.bs, search.input)

\* a sibling is about to be tried on a board whose winner flag a branch
\* before it has set
C2_WinnerLeft ==
  /\ Searching /\ Top.state = "loop" /\ Top.i <= Len(Top.moves)
  /\ Top.i > 1
  /\ \E pid \in PLAYER_ID :
       search.bs.players[pid].winner /\ ~Top.entry.players[pid].winner

\* minimax without pruning: the same terminal function and the same move
\* generation, every move of every node searched. The for loop without a
\* break folds Max (Min) over the values of all the moves, from -Infinity
\* (Infinity): the greatest (least) of these values and the start value.
RECURSIVE PlainMinimax(_, _, _)
PlainLoop(bs, depth, cfg, maximizing, moves, eval) ==
  LET evaluations ==
        {PlainMinimax(ApplyMoveAndTurn(bs, moves[i][1], moves[i][2],
                                       cfg.maxStackSize),
                      depth + 1, cfg) : i \in 1..Len(moves)} \cup {eval}
  IN IF maximizing
       THEN CHOOSE v \in evaluations : \A w \in evaluations : w <= v
       ELSE CHOOSE v \in evaluations : \A w \in evaluations : v <= w

PlainMinimax(bs, depth, cfg) ==
  LET evaluation == GetTerminalNodeState(bs, depth, cfg)
      currentPlayer == CurrentPlayer(bs)
  IN IF evaluation.isNull = FALSE THEN evaluation.score
     ELSE PlainLoop(bs, depth, cfg, IsMaximizing(currentPlayer),
                    GetAllPossibleMoves(bs, currentPlayer),
                    IF IsMaximizing(currentPlayer)
                      THEN -Infinity ELSE Infinity)

\* the score of root move k without pruning
PlainScore(bs, moves, k, cfg) ==
  PlainMinimax(ApplyMoveAndTurn(bs, moves[k][1], moves[k][2],
                                cfg.maxStackSize), 0, cfg)

\* the earliest index of a maximal score
EarliestBest(scores) ==
  CHOOSE k \in 1..Len(scores) :
    /\ \A j \in 1..Len(scores) : scores[j] <= scores[k]
    /\ \A j \in 1..(k - 1) : scores[j] < scores[k]

PlainScores(bs, moves, cfg) ==
  LET n == Len(moves)
  IN CHOOSE scores \in {[k \in 1..n |-> PlainScore(bs, moves, k, cfg)]} : TRUE

\* C3: minimax(board, 0, -Infinity, Infinity) with the break on beta <=
\* alpha returns the score of the minimax without pruning, and
\* findBestMove returns the move it would return without pruning.
C3_PruningKeepsResult ==
  /\ (Searching /\ Len(search.stack) = 2 /\ Top.state = "return") =>
       Top.value = PlainMinimax(Top.entry, 0, settings)
  /\ search.phase = "done" =>
       LET moves == GetAllPossibleMoves(search.input, BOT)
           scores == PlainScores(search.input, moves, settings)
       IN search.result = moves[EarliestBest(scores)]

\* the search of a root move returns a finite score after breaks that
\* skipped moves
C3_Witness ==
  /\ Searching /\ Len(search.stack) = 2 /\ Top.state = "return"
  /\ Top.cut >= 2
  /\ Top.value > -Infinity /\ Top.value < Infinity
  /\ settings.depth >= 2

\* C4: findBestMove returns the earliest move, in the order of
\* getAllPossibleMoves, whose score (minimax of the child position with
\* depth 0, alpha -Infinity and beta Infinity) is maximal over the root
\* moves; ties go to the first, also when every root move scores
\* -Infinity.
C4_EarliestBestMove ==
  search.phase = "done" =>
    LET root == search.stack[1]
    IN /\ root.moves = GetAllPossibleMoves(search.input, BOT)
       /\ Len(root.scores) = Len(root.moves)
       /\ \E k \in 1..Len(root.moves) :
            /\ search.result = root.moves[k]
            /\ \A j \in 1..Len(root.moves) : root.scores[j] <= root.scores[k]
            /\ \A j \in 1..(k - 1) : root.scores[j] < root.scores[k]

\* two root moves share the best score and the first of them, not the
\* first root move, is returned
C4_Witness ==
  /\ search.phase = "done"
  /\ LET root == search.stack[1]
     IN \E k \in 2..Len(root.moves) : \E j \in (k + 1)..Len(root.moves) :
          /\ search.result = root.moves[k]
          /\ root.scores[j] = root.scores[k]
          /\ root.scores[k] > -Infinity

\* every root move scores -Infinity and the first root move is returned
C4_WitnessAllLost ==
  /\ search.phase = "done"
  /\ LET root == search.stack[1]
     IN /\ Len(root.moves) >= 2
        /\ \A k \in 1..Len(root.moves) : root.scores[k] = -Infinity
        /\ search.result = root.moves[1]

\* minimax is about to call getTerminalNodeState
AtMinimaxEntry ==
  Searching /\ Top.kind = "minimax" /\ Top.state = "enter"

\* C14: getTerminalNodeState checks the wins first and at every depth: the
\* call returns +Infinity when checkWin holds for the bot, else -Infinity
\* when it holds for the user; when neither has won and depth equals the
\* configured depth it returns the finite heuristic score; in every other
\* case it returns null, and minimax goes into its loop over the legal
\* moves of the player to move.
C14_TerminalOrder ==
  [][AtMinimaxEntry =>
       LET n == Len(search.stack)
           bs == search.bs
           frame == search'.stack[n]
       IN /\ search'.phase = "searching"
          /\ Len(search'.stack) = n
          /\ IF StatedWin(bs, BOT)
               THEN frame.state = "return" /\ frame.value = Infinity
             ELSE IF StatedWin(bs, USER)
               THEN frame.state = "return" /\ frame.value = -Infinity
             ELSE IF Top.depth = settings.depth
               THEN /\ frame.state = "return"
                    /\ frame.value = HeuristicScore(bs, settings)
                    /\ -Infinity < frame.value /\ frame.value < Infinity
             ELSE /\ frame.state = "loop"
                  /\ frame.i = 1
                  /\ frame.moves
                       = GetAllPossibleMoves(bs, CurrentPlayer(bs))]_vars

\* a call below the configured depth returned -Infinity for a win of the
\* user without looking at any move
C14_Witness ==
  /\ Searching /\ Top.kind = "minimax" /\ Top.state = "return"
  /\ Top.depth < settings.depth
  /\ Top.moves = <<>>
  /\ StatedWin(Top.entry, USER) /\ ~StatedWin(Top.entry, BOT)
  /\ Top.value = -Infinity

\* a win found at the configured depth: the heuristic is not computed
C14_WitnessWinAtDepth ==
  /\ Searching /\ Top.kind = "minimax" /\ Top.state = "return"
  /\ Top.depth = settings.depth
  /\ ~StatedWin(Top.entry, BOT) /\ StatedWin(Top.entry, USER)
  /\ Top.value = -Infinity

\* the heuristic score at the configured depth
C14_WitnessHeuristic ==
  /\ Searching /\ Top.kind = "minimax" /\ Top.state = "return"
  /\ Top.depth = settings.depth
  /\ ~StatedWin(Top.entry, BOT) /\ ~StatedWin(Top.entry, USER)
  /\ Top.value = HeuristicScore(Top.entry, settings)

\* null below the configured depth: the call is in its loop
C14_WitnessNull ==
  /\ Searching /\ Top.kind = "minimax" /\ Top.state = "loop"
  /\ Top.depth < settings.depth
  /\ Top.moves # <<>>

InvalidInvocation ==
  "findBestMove must be invoked for the bot AI opponent (maximizing player)."
NoLegalMoves == "could not determine possible moves"

\* the worker has run findBestMove on the board of the request
Dispatched == search.phase # "idle"

C19_WitnessUser ==
  /\ search.phase = "threw" /\ search.error = InvalidInvocation
  /\ players[USER].turn
  /\ search.bs = Board /\ search.result = NoMove

\* the towers of a player: the cells whose top stone is the player's
StatedTowers(bs, pid) ==
  {id \in CellIds : bs.cells[id].svgLayout # <<>>
                    /\ bs.cells[id].svgLayout[Len(bs.cells[id].svgLayout)] = pid}
StatedReversed(bs, pid) == {id \in StatedTowers(bs, pid) : bs.cells[id].dot}
StatedDistance(id, pid) == IF pid = BOT THEN 5 - (id \div 6) ELSE id \div 6

\* the sum of f[id] over the cells id, id + 1, ... , 35 that are in ids
RECURSIVE SumFrom(_, _, _)
SumFrom(id, ids, f) ==
  IF id > 35 THEN 0
  ELSE (IF id \in ids THEN f[id] ELSE 0) + SumFrom(id + 1, ids, f)

StatedProx(bs, pid, cfg) ==
  SumFrom(0, StatedReversed(bs, pid),
          [id \in CellIds |->
             cfg.weightRowDistance[StatedDistance(id, pid)]])
StatedBonus(bs, pid) ==
  IF SumFrom(0, StatedReversed(bs, pid),
             [id \in CellIds |-> StatedDistance(id, pid)]) <= 4
    THEN 1 ELSE 0

\* the stated score, for integer weights (round of an integer is itself)
StatedScore(bs, cfg) ==
  (Cardinality(StatedTowers(bs, BOT))
   - cfg.conqueredOpponentWeight * Cardinality(StatedTowers(bs, USER)))
  * cfg.conqueredTotalWeight
  + (IF cfg.safetyZone > 0
       THEN (StatedProx(bs, BOT, cfg)
             - cfg.proximityOpponentWeight * StatedProx(bs, USER, cfg))
            * cfg.proximityTotalWeight
            + (StatedBonus(bs, BOT)
               - cfg.proximityOpponentWeight * StatedBonus(bs, USER))
              * cfg.safetyZoneTotalDistance * cfg.proximityTotalWeight
       ELSE 0)
  + (IF cfg.materialOpponent > 0
       THEN (bs.players[BOT].vault.opponent
             - bs.players[USER].vault.opponent) * cfg.accountedTotalWeight
       ELSE 0)

\* a call at the configured depth has returned on a board nobody has won
LeafReturned ==
  /\ Searching /\ Top.kind = "minimax" /\ Top.state = "return"
  /\ Top.depth = settings.depth
  /\ ~StatedWin(Top.entry, BOT) /\ ~StatedWin(Top.entry, USER)

C23_WitnessVault ==
  /\ LeafReturned
  /\ settings.materialOpponent > 0
  /\ Top.entry.players[BOT].vault.opponent
       # Top.entry.players[USER].vault.opponent
  /\ Top.value = StatedScore(Top.entry, settings)

StatedTotalDistance(bs, pid) ==
  SumFrom(0, StatedReversed(bs, pid),
          [id \in CellIds |-> StatedDistance(id, pid)])

\* C24: the bonus for the total distance goes to a player only when that
\* player has a tower in reverse movement and the reversed towers are in
\* total fewer than 5 rows away from the safety zone; a player without a
\* tower in reverse movement does not get it.
C24_BonusNeedsReversedTower ==
  LeafReturned /\ settings.safetyZone > 0 =>
    \A pid \in PLAYER_ID :
      TowerTotalSafetyDistance(Top.entry, pid, settings) = 1 =>
        /\ StatedReversed(Top.entry, pid) # {}
        /\ StatedTotalDistance(Top.entry, pid) < 5

\* a leaf where the bot has no tower in reverse movement and the user's
\* reversed towers are five rows or more away: the value holds the bonus of
\* the bot alone
C24_BonusWithoutReversedTower ==
  /\ LeafReturned /\ settings.safetyZone > 0
  /\ StatedReversed(Top.entry, BOT) = {}
  /\ StatedTotalDistance(Top.entry, USER) > 4
  /\ TowerTotalSafetyDistance(Top.entry, BOT, settings) = 1
  /\ Top.value
       = (Cardinality(StatedTowers(Top.entry, BOT))
          - settings.conqueredOpponentWeight
            * Cardinality(StatedTowers(Top.entry, USER)))
         * settings.conqueredTotalWeight
         - settings.proximityOpponentWeight
           * StatedProx(Top.entry, USER, settings)
           * settings.proximityTotalWeight
         + settings.safetyZoneTotalDistance * settings.proximityTotalWeight
         + (IF settings.materialOpponent > 0
              THEN (Top.entry.players[BOT].vault.opponent
                    - Top.entry.players[USER].vault.opponent)
                   * settings.accountedTotalWeight
              ELSE 0)

\* the calls on the stack: findBestMove, then minimax at the depths 0, 1,
\* ...; no call at the configured depth is in its loop over the moves
DepthBounded ==
  Searching =>
    /\ Len(search.stack) <= settings.depth + 2
    /\ \A k \in 1..Len(search.stack) :
         LET frame == search.stack[k]
         IN IF k = 1 THEN frame.kind = "root"
            ELSE /\ frame.kind = "minimax"
                 /\ frame.depth = k - 2
                 /\ 0 <= frame.depth /\ frame.depth <= settings.depth
                 /\ frame.depth = settings.depth =>
                      frame.state # "loop" /\ frame.moves = <<>>

\* findBestMove has returned a move it was offered for the bot on the
\* board of the request, or has thrown for a board it does not accept
Finished ==
  \/ /\ search.phase = "done"
     /\ search.result \in SeqToSet(GetAllPossibleMoves(search.input, BOT))
  \/ /\ search.phase = "threw"
     /\ \/ CurrentPlayer(search.input) # BOT
        \/ GetAllPossibleMoves(search.input, BOT) = <<>>

C26_WitnessDone ==
  /\ search.phase = "done" /\ settings.depth = 2
  /\ search.result \in SeqToSet(GetAllPossibleMoves(search.input, BOT))

\* a call of minimax below the configured depth on a board nobody has won
\* whose player to move has no legal move
StuckNode(frame) ==
  /\ frame.kind = "minimax" /\ frame.depth < settings.depth
  /\ ~StatedWin(frame.entry, BOT) /\ ~StatedWin(frame.entry, USER)
  /\ GetAllPossibleMoves(frame.entry, CurrentPlayer(frame.entry)) = <<>>

\* C27: a node that is not terminal and whose player to move has no legal
\* move is a loss for that player: minimax returns -Infinity when the bot
\* (maximizing) is stuck and +Infinity when the user (minimizing) is stuck;
\* it does not throw and the board stays as it was.
C27_StuckIsLoss ==
  [][Searching /\ StuckNode(Top) /\ Top.state \in {"enter", "loop"} =>
       LET n == Len(search.stack)
       IN /\ search'.phase = "searching"
          /\ Len(search'.stack) = n
          /\ search'.bs = Top.entry
          /\ IF Top.state = "enter"
               THEN /\ search'.stack[n].state = "loop"
                    /\ search'.stack[n].moves = <<>>
               ELSE /\ search'.stack[n].state = "return"
                    /\ search'.stack[n].value
                         = IF CurrentPlayer(Top.entry) = BOT
                             THEN -Infinity ELSE Infinity]_vars

\* the bot was stuck and the call has returned -Infinity
C27_Witness ==
  /\ Searching /\ StuckNode(Top) /\ Top.state = "return"
  /\ CurrentPlayer(Top.entry) = BOT
  /\ Top.value = -Infinity /\ search.bs = Top.entry

\* the user was stuck and the call has returned +Infinity
C27_WitnessUser ==
  /\ Searching /\ StuckNode(Top) /\ Top.state = "return"
  /\ CurrentPlayer(Top.entry) = USER
  /\ Top.value = Infinity /\ search.bs = Top.entry

-----------------------------------------------------------------------------
(* The frame of a move *)

\* the board applyMoveAndTurn made of the board before the last move
AfterApply == ApplyMoveAndTurn(Pre, last.src, last.tgt, MaxStack)

\* C30: applyMoveAndTurn(src, tgt) changes only the source cell, the target
\* cell, the mover's vault, safetyTower and lastHorizontal, and the two
\* turn flags: the other 34 cells, the opponent's vault, safetyTower and
\* lastHorizontal and both winner flags are as before; the mover's
\* lastHorizontal is true exactly when the target is in the row of the
\* source.
C30_MoveFrame ==
  Moved =>
    LET mover == last.mover
        other == Opponent(last.mover)
    IN /\ mover = CurrentPlayer(Pre)
       /\ \A id \in CellIds \ {last.src, last.tgt} :
            AfterApply.cells[id] = Pre.cells[id]
       /\ AfterApply.players[other].vault = Pre.players[other].vault
       /\ AfterApply.players[other].safetyTower
            = Pre.players[other].safetyTower
       /\ AfterApply.players[other].lastHorizontal
            = Pre.players[other].lastHorizontal
       /\ \A pid \in PLAYER_ID :
            /\ AfterApply.players[pid].winner = Pre.players[pid].winner
            /\ AfterApply.players[pid].turn = ~Pre.players[pid].turn
       /\ AfterApply.players[mover].lastHorizontal
            = (last.tgt \div 6 = last.src \div 6)
       /\ cells = AfterApply.cells
       /\ \A pid \in PLAYER_ID :
            /\ players[pid].vault = AfterApply.players[pid].vault
            /\ players[pid].safetyTower = AfterApply.players[pid].safetyTower
            /\ players[pid].lastHorizontal
                 = AfterApply.players[pid].lastHorizontal
            /\ players[pid].turn = AfterApply.players[pid].turn

\* a lateral move that put a stone into the mover's vault while the
\* opponent's lock was set: source, target, vault and the mover's lock have
\* changed, the opponent's lock is still set
C30_Witness ==
  /\ Moved /\ last.tgt \div 6 = last.src \div 6
  /\ Pre.players[Opponent(last.mover)].lastHorizontal
  /\ players[Opponent(last.mover)].lastHorizontal
  /\ ~Pre.players[last.mover].lastHorizontal
  /\ players[last.mover].lastHorizontal
  /\ players[last.mover].vault # Pre.players[last.mover].vault
  /\ cells[last.src] # PreSrc /\ cells[last.tgt] # PreTgt

-----------------------------------------------------------------------------
(* The length of a game *)

\* the rows a tower still has to go: to the far edge and back to the edge
\* it started from when it is not reversed, back to that edge when it is
RowsToGo(bs, id) ==
  LET cell == bs.cells[id]
      home == IF cell.svgLayout[Len(cell.svgLayout)] = USER
                THEN id \div 6 ELSE 5 - (id \div 6)
  IN IF cell.dot THEN home ELSE (5 - home) + 5

\* three times the rows all towers have to go, plus one for each player
\* who is free to move laterally
Rank(bs) ==
  3 * SumFrom(0, {id \in CellIds : bs.cells[id].svgLayout # <<>>},
              [id \in CellIds |->
                 IF bs.cells[id].svgLayout # <<>> THEN RowsToGo(bs, id)
                 ELSE 0])
  + Cardinality({pid \in PLAYER_ID : ~bs.players[pid].lastHorizontal})

EveryMoveUsesProgress(bs) ==
  /\ Rank(bs) >= 0
  /\ \A move \in SeqToSet(GetAllPossibleMoves(bs, CurrentPlayer(bs))) :
       Rank(ApplyMoveAndTurn(bs, move[1], move[2], settings.maxStackSize))
         < Rank(bs)

\* C29: every game is finite, also when the win checks are ignored: each
\* move out of getAllPossibleMoves, on a won board as well, takes the board
\* to a strictly smaller rank (vertical moves and captures use up rows to
\* go, a lateral move uses up the mover's freedom to move laterally, and no
\* player moves laterally twice in a row), so legal play has no cycle.
C29_GameIsFinite ==
  /\ EveryMoveUsesProgress(Board)
  /\ \A pid \in PLAYER_ID : kinds[pid] # <<"lateral", "lateral">>
  /\ Moved => Rank(Board) < Rank(Pre)

\* a lateral move onto an empty cell: the rows to go are the same, the rank
\* is smaller by the mover's lock alone
C29_Witness ==
  /\ Moved /\ Row(last.src) = Row(last.tgt)
  /\ PreTgt.svgLayout = <<>>
  /\ Rank(Board) = Rank(Pre) - 1
  /\ GetAllPossibleMoves(Board, CurrentPlayer(Board)) # <<>>

\* a move was generated on a board that is won
C29_WitnessWon ==
  /\ GameOver(Board)
  /\ GetAllPossibleMoves(Board, CurrentPlayer(Board)) # <<>>

-----------------------------------------------------------------------------
(* Properties of the live loop *)

\* a step of the timeout branch of playBotMove: only it replaces the worker
TimeoutStep == live'.aiWorker # live.aiWorker
BoardChanged == cells' # cells \/ players' # players
ResetStep == last'.op = "reset" /\ cells' = CreateBoard.cells

\* nothing of a terminated worker is waiting to be handled or delivered
NothingFromTerminated(l) ==
  /\ \A k \in 1..Len(l.requests) : l.requests[k].worker = l.aiWorker
  /\ \A k \in 1..Len(l.port) : l.port[k].worker = l.aiWorker

\* C22: when a request to the AI worker times out, no bot move is applied
\* to the live board, the worker is terminated and replaced so that no late
\* answer can arrive, board events stay disabled, and the next change of
\* the live board is resetGame, run on closing the dialog.
C22_TimeoutAllOrNothing ==
  [][/\ TimeoutStep =>
          /\ ~BoardChanged
          /\ live'.aiWorker = live.aiWorker + 1
          /\ NothingFromTerminated(live')
          /\ live'.dialog
          /\ live'.disableBoardEvents
     /\ live.dialog =>
          /\ live.disableBoardEvents
          /\ BoardChanged => ResetStep /\ ~live'.dialog]_vars

\* the timeout dialog is open and the board takes clicks
C22_DialogEventsEnabled == live.dialog /\ ~live.disableBoardEvents

\* a move is applied to the live board
MoveStep == moveCount' = moveCount + 1

C25_WitnessBot ==
  /\ players[BOT].winner /\ ~players[USER].winner
  /\ last.op = "move" /\ last.mover = BOT
  /\ live.disableBoardEvents /\ ~live.waitForWebWorker

-----------------------------------------------------------------------------
(* The frame of undoMove *)

\* a call of minimax returns to its caller, which undoes its move
UndoStep ==
  /\ Searching /\ Len(search.stack) >= 2 /\ Top.state = "return"
  /\ Len(search'.stack) = Len(search.stack) - 1

\* the snapshots of the calls that are still waiting are what they were
SnapshotsKept ==
  \A k \in 1..Len(search.stack) :
    (k < Len(search.stack) /\ k < Len(search'.stack)) =>
      search'.stack[k].loggedMove = search.stack[k].loggedMove

\* C31: undoMove writes the stack, direction and reversed flag of the two
\* cells of the logged move and turn, lastHorizontal, safetyTower and vault
\* of both players, from the snapshot; every other cell and both winner
\* flags are what they were before the call; and no move or undo of a
\* deeper call alters the snapshot a waiting call holds.
C31_UndoFrame ==
  [][/\ SnapshotsKept
     /\ UndoStep =>
          LET loggedMove == Caller.loggedMove
          IN /\ \A id \in CellIds \ {loggedMove.srcId, loggedMove.tgtId} :
                  search'.bs.cells[id] = search.bs.cells[id]
             /\ search'.bs.cells[loggedMove.srcId] = loggedMove.srcCell
             /\ search'.bs.cells[loggedMove.tgtId] = loggedMove.tgtCell
             /\ \A pid \in PLAYER_ID :
                  /\ search'.bs.players[pid].winner
                       = search.bs.players[pid].winner
                  /\ search'.bs.players[pid].turn
                       = loggedMove.playerState[pid].turn
                  /\ search'.bs.players[pid].lastHorizontal
                       = loggedMove.playerState[pid].lastHorizontal
                  /\ search'.bs.players[pid].safetyTower
                       = loggedMove.playerState[pid].safetyTower
                  /\ search'.bs.players[pid].vault
                       = loggedMove.playerState[pid].vault]_vars

\* a move has been undone and the winner flag set below it is still set,
\* while the snapshot of the move has it cleared
C31_Witness ==
  /\ Searching /\ Top.state = "loop" /\ Top.i > 1
  /\ Top.loggedMove # NoLoggedMove
  /\ \E pid \in PLAYER_ID :
       /\ search.bs.players[pid].winner
       /\ ~Top.loggedMove.playerState[pid].winner
  /\ SameCellFields(search.bs, Top.entry)

\* a call is about to return over a move that changed the vault, two
\* calls deep, so that the snapshot of the outer call is held meanwhile
C31_WitnessVault ==
  /\ Searching /\ Len(search.stack) >= 3 /\ Top.state = "return"
  /\ \E pid \in PLAYER_ID :
       search.bs.players[pid].vault # Caller.loggedMove.playerState[pid].vault

-----------------------------------------------------------------------------
(* The setting safetyZone = 0 *)

\* the board the worker is at, or the live board before the request
NodeBoard == IF search.phase = "idle" THEN Board ELSE search.bs

\* C32: with safetyZone = 0 checkWin returns true and sets the winner flag
\* for either player on every board (safetyTower is never negative), so
\* getTerminalNodeState returns +Infinity at every node and every depth
\* without reaching the heuristic, no call of minimax enters its loop, and
\* any move applied by the live loop ends the game.
C32_ZoneZeroAlwaysWins ==
  settings.safetyZone = 0 =>
    /\ \A pid \in PLAYER_ID :
         /\ NodeBoard.players[pid].safetyTower >= 0
         /\ WinCondition(NodeBoard, pid, settings)
         /\ CheckWin(NodeBoard, pid, settings).players[pid].winner
    /\ \A depth \in 0..settings.depth :
         LET evaluation == GetTerminalNodeState(NodeBoard, depth, settings)
         IN /\ evaluation.score = Infinity
            /\ ~evaluation.isNull /\ ~evaluation.threw
            /\ evaluation.bs.players[BOT].winner
    /\ Searching =>
         \A k \in 2..Len(search.stack) :
           /\ search.stack[k].state \in {"enter", "return"}
           /\ search.stack[k].state = "return" =>
                search.stack[k].value = Infinity
    /\ \A move \in SeqToSet(GetAllPossibleMoves(NodeBoard,
                                                 CurrentPlayer(NodeBoard))) :
         GameOver(LiveMove(NodeBoard, move[1], move[2], settings))

\* a call of minimax returns +Infinity for a board on which nobody has won
\* by the factory rules, before the depth of the settings
C32_Witness ==
  /\ settings.safetyZone = 0
  /\ Searching /\ Len(search.stack) = 2 /\ Top.state = "return"
  /\ Top.value = Infinity /\ Top.depth < settings.depth
  /\ \A pid \in PLAYER_ID : ~WinCondition(search.bs, pid, FactorySettings)

\* the live loop: a move applied under safetyZone = 0 has ended the game
C32_LiveFirstMoveEnds ==
  (settings.safetyZone = 0 /\ moveCount > 0) =>
    /\ moveCount = 1 /\ GameOver(Board) /\ live.tasks = <<>>

C32_LiveWitness ==
  settings.safetyZone = 0 /\ moveCount = 1 /\ last.op = "move"

\* a move is applied by the click handler / by playBotMove
ClickStep == live'.clicks = live.clicks + 1
BotStep == MoveStep /\ live'.clicks = live.clicks

\* a move has been applied since the last reset and the bot is to move
BotToReply == last.op = "move" /\ CurrentPlayer(Board) = BOT

\* C33: from a move of the user until the bot's reply is applied without a
\* win of the bot, or the game is reset, disableBoardEvents is true; a click
\* applies a move only on the user's turn and playBotMove only on the bot's
\* turn, so that the moves of the two alternate.
C33_EventsDisabledWhileBotToReply ==
  [][/\ BotToReply' => live'.disableBoardEvents
     /\ ClickStep => CurrentPlayer(Board) = USER
     /\ BotStep => CurrentPlayer(Board) = BOT]_vars

\* the user's move is on the board, the bot has not replied, nobody has
\* won, and the board takes clicks
C33_BotToReplyEventsEnabled ==
  /\ BotToReply /\ last.mover = USER /\ ~GameOver(Board)
  /\ ~live.disableBoardEvents

\* the navbar handler runs resetGame (the dialog is not open)
NavbarResetStep == ResetStep /\ ~live.dialog

\* C34: resetGame is not run from the navbar while a call of playUserMove
\* or playBotMove is pending, and every board sent to the AI worker has
\* the bot to move, so that findBestMove does not throw on its first test.
C34_NoRestartInsideCycle ==
  [][/\ NavbarResetStep => live.tasks = <<>>
     /\ \A k \in 1..Len(live'.requests) :
          /\ CurrentPlayer(live'.requests[k].bs) = BOT
          /\ FindBestMoveStart(live'.requests[k].bs, settings).error
               # "findBestMove must be invoked for the bot AI opponent (maximizing player)."]_vars

\* the worker has answered a request of the live loop with the error of
\* findBestMove's first test, on the board of a new game
C34_InvalidInvocationAnswered ==
  /\ \E k \in 1..Len(live.port) :
       /\ live.port[k].error
            = "findBestMove must be invoked for the bot AI opponent (maximizing player)."
       /\ live.port[k].worker = live.aiWorker
  /\ last.op = "reset" /\ cells = CreateBoard.cells
  /\ CurrentPlayer(Board) = USER

-----------------------------------------------------------------------------
(* AsyncAPIWrapper.js: dispatchWorker on one worker.  A call is known by   *)
(* its place in dispatch.calls; a message carries no mark of the call it   *)
(* answers, the number in inbox and port is history.                       *)

MaxCalls == 3

\* the rest of the page at rest while a part of it is looked at alone
PageIdle ==
  /\ cells = CreateBoard.cells
  /\ players = CreateBoard.players
  /\ settings = FactorySettings
  /\ moveCount = 0
  /\ kinds = [bot |-> <<>>, user |-> <<>>]
  /\ last = [op |-> "start", src |-> -1, tgt |-> -1,
             mover |-> "undefined", pre |-> CreateBoard]
  /\ search = Idle
  /\ live = LiveIdle

InitDispatch ==
  /\ PageIdle
  /\ \E cleanUp \in BOOLEAN : dispatch = [DispatchIdle EXCEPT !.cleanUp = cleanUp]
  /\ replayLog = LogEmpty
  /\ reader = ReaderIdle

\* dispatchWorker up to its return: both listeners are added to the worker,
\* the message is posted, the timer is started, the promise is pending
DispatchWorker ==
  /\ Len(dispatch.calls) < MaxCalls
  /\ dispatch' =
       [dispatch EXCEPT
          !.calls = Append(@, [state |-> "pending", response |-> 0,
                               listening |-> TRUE, timer |-> TRUE]),
          !.inbox = Append(@, Len(dispatch.calls) + 1)]
  /\ UNCHANGED <<cells, players, settings, moveCount, last, kinds, search,
                 live, replayLog, reader>>

\* the message handler of the worker posts its response; the handler of the
\* DbWorker is async, the responses of two requests it has begun to handle
\* come in the order their transactions end
WorkerResponds ==
  /\ \E k \in 1..Len(dispatch.inbox) :
       dispatch' = [dispatch EXCEPT
                      !.inbox = RemoveAt(@, k),
                      !.port = Append(@, dispatch.inbox[k])]
  /\ UNCHANGED <<cells, players, settings, moveCount, last, kinds, search,
                 live, replayLog, reader>>

\* messageEventHandler of a call on a message event of the worker: the
\* handler is removed (with resourceCleanUp the timer is cleared too) and
\* resolve(respMsg) settles the promise unless the timeout has settled it
MessageHandled(call, message, cleanUp) ==
  IF call.listening
    THEN [state |-> IF call.state = "pending" THEN "response" ELSE call.state,
          response |-> IF call.state = "pending" THEN message
                       ELSE call.response,
          listening |-> FALSE,
          timer |-> IF cleanUp THEN FALSE ELSE call.timer]
    ELSE call

\* a message event of the worker runs every message handler registered on it
MessageEvent ==
  /\ dispatch.port # <<>>
  /\ dispatch' =
       [dispatch EXCEPT
          !.port = Tail(@),
          !.calls = [i \in 1..Len(dispatch.calls) |->
                       MessageHandled(dispatch.calls[i], Head(dispatch.port),
                                      dispatch.cleanUp)]]
  /\ UNCHANGED <<cells, players, settings, moveCount, last, kinds, search,
                 live, replayLog, reader>>

\* the timer of a call fires: resolve(timeoutMessage) settles the promise
\* unless a message has settled it; only resourceCleanUp removes the
\* message handler of the call
TimerFires ==
  /\ \E i \in 1..Len(dispatch.calls) :
       /\ dispatch.calls[i].timer
       /\ dispatch' =
            [dispatch EXCEPT
               !.calls[i] =
                  [state |-> IF @.state = "pending" THEN "timeout"
                             ELSE @.state,
                   response |-> @.response,
                   listening |-> IF dispatch.cleanUp THEN FALSE
                                 ELSE @.listening,
                   timer |-> FALSE]]
  /\ UNCHANGED <<cells, players, settings, moveCount, last, kinds, search,
                 live, replayLog, reader>>

NextDispatch == DispatchWorker \/ WorkerResponds \/ MessageEvent \/ TimerFires

SpecDispatch == InitDispatch /\ [][NextDispatch]_vars

\* C35: a promise of dispatchWorker is settled once, by the timeout message
\* or by the worker's response to its own request: no call is resolved
\* with the response to the request of another call, neither when two
\* requests are outstanding nor when a response comes after a timeout.
C35_OwnResponseOnce ==
  [][\A i \in 1..Len(dispatch'.calls) :
       /\ dispatch'.calls[i].state = "response" =>
            dispatch'.calls[i].response = i
       /\ (i <= Len(dispatch.calls) /\ dispatch.calls[i].state # "pending") =>
            /\ dispatch'.calls[i].state = dispatch.calls[i].state
            /\ dispatch'.calls[i].response = dispatch.calls[i].response]_vars

\* two requests were outstanding and the response to the first has
\* resolved the promise of the second
C35_ResolvedWithOthersResponse ==
  \E i \in 1..Len(dispatch.calls) :
    /\ dispatch.calls[i].state = "response"
    /\ dispatch.calls[i].response # i
    /\ dispatch.calls[dispatch.calls[i].response].state = "response"

\* a call timed out, and the late response to it has resolved the promise
\* of a later call
C35_LateResponseTaken ==
  \E i \in 1..Len(dispatch.calls) :
    /\ dispatch.calls[i].state = "response"
    /\ dispatch.calls[i].response < i
    /\ dispatch.calls[dispatch.calls[i].response].state = "timeout"
    /\ dispatch.cleanUp

-----------------------------------------------------------------------------
(* GameEventLoop.js: LoggerWriter.update and the map LoggerReader.instances. *)
(* A record of the ReplayLog store is [id, gameId, move]; Date.now() is the  *)
(* clock, read after an awaited round trip to the DbWorker, and so later     *)
(* than the value read before.                                               *)

MaxGames == 11
MaxUpdates == 2

InitLog ==
  /\ PageIdle
  /\ dispatch = DispatchIdle
  /\ replayLog = LogEmpty
  /\ reader = ReaderIdle

\* cacheAllIndexKeys: the distinct gameId values of the index, ascending
\* (openKeyCursor with "nextunique")
RECURSIVE Ascending(_)
Ascending(S) ==
  IF S = {} THEN <<>>
  ELSE LET least == CHOOSE x \in S : \A y \in S : x <= y
       IN <<least>> \o Ascending(S \ {least})

CacheAllIndexKeys(store) == Ascending({record.gameId : record \in store})

\* LoggerReader.instances.get(gameId): the reader, or undefined
InstancesGet(instances, gameId) ==
  [is |-> IF gameId \in instances THEN "LoggerReader" ELSE "undefined",
   gameId |-> gameId]

\* LoggerReader.dispose(gameId): instances.has(gameId) compares the argument
\* with the keys of the map, which are numbers; inside the if the statement
\* reader = null assigns to a const and throws before instances.delete
Dispose(instances, argument) ==
  IF argument.is = "number" /\ argument.gameId \in instances
    THEN [instances |-> instances, threw |-> TRUE]
    ELSE [instances |-> instances, threw |-> FALSE]

\* update, the for loop over the oldest games: dispose is called with the
\* reader that instances.get returned, then every record of the game is
\* deleted
RECURSIVE DeleteOldest(_, _, _, _)
DeleteOldest(log, allIndexKeys, i, len) ==
  IF i > len THEN log
  ELSE LET disposed == Dispose(log.instances,
                               InstancesGet(log.instances, allIndexKeys[i]))
       IN IF disposed.threw THEN [log EXCEPT !.threw = TRUE]
          ELSE DeleteOldest(
                 [log EXCEPT
                    !.instances = disposed.instances,
                    !.store = {record \in @ :
                                 record.gameId # allIndexKeys[i]}],
                 allIndexKeys, i + 1, len)

\* update while move is 0: the oldest games go when more than 9 are stored,
\* new LoggerReader(gameId) enters the map, #firstUpdate puts the record of
\* move 0
FirstUpdate(log) ==
  LET allIndexKeys == CacheAllIndexKeys(log.store)
      kept == IF Len(allIndexKeys) > 9
                THEN DeleteOldest(log, allIndexKeys, 1, Len(allIndexKeys) - 9)
                ELSE log
  IN IF kept.threw THEN kept
     ELSE [kept EXCEPT
             !.instances = @ \cup {log.gameId},
             !.clock = @ + 1,
             !.store = @ \cup {[id |-> log.clock + 1, gameId |-> log.gameId,
                                move |-> 0]}]

\* LoggerWriter.update(lastMove)
Update ==
  /\ ~replayLog.threw
  /\ replayLog.move < MaxUpdates
  /\ LET first == IF replayLog.move = 0 THEN FirstUpdate(replayLog)
                  ELSE replayLog
     IN replayLog' =
          IF first.threw THEN first
          ELSE [first EXCEPT
                  !.move = @ + 1,
                  !.clock = @ + 1,
                  !.store = @ \cup {[id |-> first.clock + 1,
                                     gameId |-> first.gameId,
                                     move |-> first.move + 1]}]
  /\ UNCHANGED <<cells, players, settings, moveCount, last, kinds, search,
                 live, dispatch, reader>>

\* resetGame: loggerWriter.gameId = Date.now(), loggerWriter.move = 0 (a
\* restart before the first logged move only reads the clock again)
NewGameId ==
  /\ replayLog.move > 0
  /\ Cardinality({record.gameId : record \in replayLog.store}
                 \cup replayLog.instances) < MaxGames
  /\ replayLog' = [replayLog EXCEPT !.clock = @ + 1, !.gameId = replayLog.clock + 1,
                                    !.move = 0]
  /\ UNCHANGED <<cells, players, settings, moveCount, last, kinds, search,
                 live, dispatch, reader>>

NextLog == Update \/ NewGameId

SpecLog == InitLog /\ [][NextLog]_vars

\* C36: the store holds the records of at most the last 10 games, and
\* LoggerReader.instances holds a reader only for a game that has records
\* in the store: the reader of a game whose records update has deleted is
\* disposed.
C36_ReadersOnlyOfStoredGames ==
  /\ Cardinality({record.gameId : record \in replayLog.store}) <= 10
  /\ \A gameId \in replayLog.instances :
       \E record \in replayLog.store : record.gameId = gameId

\* the first move of the 11th game is logged: the records of the oldest
\* game are gone, its reader is still in the map
C36_ReaderOfDeletedGame ==
  /\ Cardinality({record.gameId : record \in replayLog.store}) = 10
  /\ Cardinality(replayLog.instances) = 11
  /\ \E gameId \in replayLog.instances :
       \A record \in replayLog.store : record.gameId # gameId
  /\ ~replayLog.threw

-----------------------------------------------------------------------------
(* GameEventLoop.js: the generator of a LoggerReader and fetchRecord.  A   *)
(* record is known by its primary key; value 0 stands for undefined.       *)

MaxKeys == 3
MaxFetches == 4

\* the argument of generator.next(): a number of steps, +-Infinity, or
\* nothing
Undefined == 2 * Infinity
AdvanceSteps == {-Infinity, -2, -1, 0, 1, 2, Infinity}

InitReader ==
  /\ PageIdle
  /\ dispatch = DispatchIdle
  /\ replayLog = LogEmpty
  /\ reader = ReaderIdle

\* addPrimaryKey: loadReplayLogger and LoggerWriter.update push the keys of
\* the game in the order of its moves
AddPrimaryKey ==
  /\ Len(reader.primaryKeys) < MaxKeys
  /\ reader' = [reader EXCEPT
                  !.primaryKeys = Append(@, 11 + Len(reader.primaryKeys))]
  /\ UNCHANGED <<cells, players, settings, moveCount, last, kinds, search,
                 live, dispatch, replayLog>>

\* the request "get" of the generator: the record stored under the key of
\* the cursor; no key under an index that is not a number
GetRecord(primaryKeys, cursorIndex) == primaryKeys[cursorIndex + 1]

\* one generator.next(value): the generator runs from where it is
\* suspended to its next yield or to its end.  "start" is the generator
\* not yet run, "record" suspended at yield record, "advance" at
\* const advanceSteps = yield
GeneratorNext(generator, primaryKeys, value) ==
  LET length == Len(primaryKeys)
      stepped == [generator EXCEPT !.steps = @ + 1]
  IN CASE generator.at = "start" ->
            IF length = 0
              THEN [generator |-> [stepped EXCEPT !.at = "done"],
                    value |-> 0, done |-> TRUE]
              ELSE [generator |-> [stepped EXCEPT !.at = "record",
                                                  !.cursorIndex = length - 1],
                    value |-> GetRecord(primaryKeys, length - 1),
                    done |-> FALSE]
       [] generator.at = "record" ->
            [generator |-> [stepped EXCEPT !.at = "advance"],
             value |-> 0, done |-> FALSE]
       [] generator.at = "advance" ->
            IF value = Undefined \/ length = 0
              THEN [generator |-> [stepped EXCEPT !.at = "done"],
                    value |-> 0, done |-> TRUE]
              ELSE LET moved == IF value = Infinity THEN length - 1
                                ELSE IF value = -Infinity THEN 0
                                ELSE generator.cursorIndex + value
                       cursorIndex == IF moved < 0 THEN 0
                                      ELSE IF moved > length - 1
                                        THEN length - 1
                                      ELSE moved
                   IN [generator |-> [stepped EXCEPT
                                        !.at = "record",
                                        !.cursorIndex = cursorIndex],
                       value |-> GetRecord(primaryKeys, cursorIndex),
                       done |-> FALSE]
       [] OTHER ->
            [generator |-> stepped, value |-> 0, done |-> TRUE]

\* a variant with one call of generator.next
FetchRecordOneNext(r, advanceSteps) ==
  LET result == GeneratorNext(r.generator, r.primaryKeys, advanceSteps)
  IN IF result.done
       THEN [r EXCEPT !.generator = result.generator,
                      !.calls = @ + 1, !.advanceSteps = advanceSteps,
                      !.value = 0,
                      !.error = "error 1 in fetchRecord"]
       ELSE [r EXCEPT !.generator = result.generator,
                      !.calls = @ + 1, !.advanceSteps = advanceSteps,
                      !.value = result.value,
                      !.error = "none"]

\* fetchRecord(advanceSteps): the reader after the call, with the value
\* returned or the error thrown
FetchRecordResult(r, advanceSteps) ==
  LET result == GeneratorNext(r.generator, r.primaryKeys, advanceSteps)
  IN IF result.done
       THEN [r EXCEPT !.generator = result.generator,
                      !.calls = @ + 1, !.advanceSteps = advanceSteps,
                      !.value = 0,
                      !.error = "error 1 in fetchRecord"]
       ELSE [r EXCEPT !.generator =
                         GeneratorNext(result.generator, r.primaryKeys,
                                       Undefined).generator,
                      !.calls = @ + 1, !.advanceSteps = advanceSteps,
                      !.value = result.value,
                      !.error = "none"]

\* loadReplayLogger, loadGameHistoryMove (one call at a time, under its
\* lock) and the replay dialog call fetchRecord
FetchRecord ==
  /\ reader.calls < MaxFetches
  /\ \E advanceSteps \in AdvanceSteps :
       reader' = FetchRecordResult(reader, advanceSteps)
  /\ UNCHANGED <<cells, players, settings, moveCount, last, kinds, search,
                 live, dispatch, replayLog>>

NextReader == AddPrimaryKey \/ FetchRecord

SpecReader == InitReader /\ [][NextReader]_vars

FetchStep == reader'.calls = reader.calls + 1

\* C37: on a reader with at least one key whose calls so far have returned,
\* fetchRecord(n) leaves the cursor within 0..primaryKeys.length-1; the
\* first call puts it on the last index whatever n is, a later call on the
\* last index for +Infinity, on 0 for -Infinity, else n steps further,
\* clamped; the record of the new index is returned, the generator has
\* made two steps and waits for the next number of steps.
C37_ReplayCursor ==
  [][(FetchStep /\ Len(reader.primaryKeys) >= 1 /\ reader.error = "none") =>
       LET length == Len(reader.primaryKeys)
           n == reader'.advanceSteps
           before == reader.generator.cursorIndex
           stated == IF reader.calls = 0 \/ n = Infinity THEN length - 1
                     ELSE IF n = -Infinity THEN 0
                     ELSE IF before + n < 0 THEN 0
                     ELSE IF before + n > length - 1 THEN length - 1
                     ELSE before + n
       IN /\ reader'.error = "none"
          /\ reader'.generator.cursorIndex = stated
          /\ reader'.generator.cursorIndex \in 0..(length - 1)
          /\ reader'.value = reader.primaryKeys[stated + 1]
          /\ reader'.generator.steps = reader.generator.steps + 2
          /\ reader'.generator.at = "advance"]_vars

\* a second or third call has moved the cursor one record back, off the
\* last of three keys
C37_Witness ==
  /\ reader.calls >= 2 /\ reader.error = "none"
  /\ Len(reader.primaryKeys) = 3
  /\ reader.advanceSteps = -1
  /\ reader.generator.cursorIndex = 1 /\ reader.value = 12

\* a call with 2 steps was clamped to the last index, a call with -2 steps
\* to index 0
C37_WitnessClamped ==
  /\ reader.calls = 3 /\ reader.error = "none"
  /\ Len(reader.primaryKeys) = 2
  /\ reader.advanceSteps = -2
  /\ reader.generator.cursorIndex = 0 /\ reader.value = 11
  /\ reader.generator.steps = 6

=============================================================================
